---- MODULE Spec2Model ----
(***************************************************************************)
(* Match period tracker, mobile event logger and statistics aggregator of  *)
(* the football event logger (database/services.ts, MobileEventLogger.tsx).*)
(* Dates are milliseconds; the clock advances in half-second steps so that *)
(* the Math.floor of the elapsed-seconds computations is exercised.        *)
(***************************************************************************)
EXTENDS Integers, Sequences, FiniteSets, TLC

VARIABLES
  now,            \* wall clock, milliseconds
  matches,        \* db.matches: id -> row
  matchPeriods,   \* db.matchPeriods
  players,        \* db.players: id -> row
  eventTypes,     \* db.eventTypes: id -> row
  seasons,        \* db.seasons
  matchEvents,    \* db.matchEvents: id -> row
  nextEventId,    \* auto-increment key of db.matchEvents
  playerStats,    \* db.playerStats
  lastCreated,    \* history: the statistics before the latest created event
  counted,        \* history: event id -> the counter its creation added to
  match,          \* MobileEventLogger: the match prop
  currentPeriod,  \* MobileEventLogger state
  elapsedTime,
  isTimerRunning,
  timerDue,       \* when the interval of the timer effect fires next
  selectedEventType,
  showPlayerSelection,
  actionLog,      \* history: the actions handlePeriodAction has performed
  teams,          \* db.teams: id -> row
  awards,         \* db.awards
  awardsReturned, \* the array the latest generateSeasonAwards resolved to
  calls,          \* service calls in flight, each suspended at an await
  users,          \* db.users: id -> row
  nextTeamId,     \* auto-increment key of db.teams
  nextEventTypeId, \* auto-increment key of db.eventTypes
  recorded        \* history: events stored out of the latest selection

dbVars == <<matches, players, eventTypes, seasons, matchEvents, nextEventId,
            playerStats>>
statVars == <<players, eventTypes, seasons, matchEvents, nextEventId,
              playerStats, lastCreated, counted>>
uiVars == <<match, currentPeriod, elapsedTime, isTimerRunning, timerDue,
           selectedEventType, showPlayerSelection, actionLog>>
\* State that no period, event, season or logger operation writes.
sideVars == <<users, nextTeamId, nextEventTypeId, recorded>>
restVars == <<teams, awards, awardsReturned, calls, sideVars>>
vars == <<now, matchPeriods, dbVars, lastCreated, counted, uiVars, restVars>>

\* ---------------------------------------------------------------- bounds
MaxMatches == 2
MaxPeriods == 2
MaxPeriodRows == 3
MaxClock == 3
MaxPlayers == 2
MaxEventTypes == 2
MaxSeasons == 2
MaxEventRows == 2
MaxCalls == 2
MaxStatRows == 2
MaxStatValue == 2
MaxAwardRows == 4
MaxTeams == 2
MaxEventTypeRows == 12

\* ------------------------------------------------------ program constants
MsPerSecond == 1000

StepMs == MsPerSecond \div 2

MatchIds == 1..MaxMatches
PeriodNumbers == 1..MaxPeriods
NoTime == 0 - 1
NoPeriod == [id |-> 0]
NoId == 0
PlayerIds == 1..MaxPlayers
EventTypeIds == 1..MaxEventTypes

\* ------------------------------------------------------------ period rows
\* db.matchPeriods: auto-increment table, rows are never deleted, so the
\* table is the sequence of rows in insertion order and id = index.
PeriodsOf(rows, matchId) ==
  {i \in 1..Len(rows) : rows[i].matchId = matchId}

ActivePeriods(rows, matchId) ==
  {i \in PeriodsOf(rows, matchId) : rows[i].isActive}

NewPeriod(rows, matchId, periodNumber, t) ==
  [id |-> Len(rows) + 1, matchId |-> matchId, periodNumber |-> periodNumber,
   startTime |-> t, endTime |-> NoTime, elapsedTime |-> 0,
   isActive |-> TRUE, isCompleted |-> FALSE]

\* Variants of startPeriod with a slip: the loop over the active periods is
\* missing, or it forgets the end timestamp.
startPeriod_KeepsActive(rows, matchId, periodNumber, t) ==
  Append(rows, NewPeriod(rows, matchId, periodNumber, t))

startPeriod_NoEndTime(rows, matchId, periodNumber, t) ==
  LET ended == [i \in 1..Len(rows) |->
                  IF i \in ActivePeriods(rows, matchId)
                  THEN [rows[i] EXCEPT !.isActive = FALSE]
                  ELSE rows[i]]
  IN Append(ended, NewPeriod(rows, matchId, periodNumber, t))

startPeriod(rows, matchId, periodNumber, t) ==
  LET ended == [i \in 1..Len(rows) |->
                  IF i \in ActivePeriods(rows, matchId)
                  THEN [rows[i] EXCEPT !.isActive = FALSE, !.endTime = t]
                  ELSE rows[i]]
  IN Append(ended, NewPeriod(rows, matchId, periodNumber, t))

\* Variant that rounds up instead of down.
ElapsedSeconds_RoundUp(t, startTime) ==
  (t - startTime + MsPerSecond - 1) \div MsPerSecond

\* Math.floor((now.getTime() - startTime.getTime()) / 1000)
ElapsedSeconds(t, startTime) == (t - startTime) \div MsPerSecond

\* Variant that also finds a period that is no longer active.
EndCandidates_AnyState(rows, matchId, periodNumber) ==
  {i \in PeriodsOf(rows, matchId) : rows[i].periodNumber = periodNumber}

\* .where('matchId').equals(matchId).and(number and active).first():
\* the matching row with the lowest primary key, if any.
EndCandidates(rows, matchId, periodNumber) ==
  {i \in ActivePeriods(rows, matchId) : rows[i].periodNumber = periodNumber}

Min(S) == CHOOSE x \in S : \A y \in S : x <= y
Max(S) == CHOOSE x \in S : \A y \in S : x >= y

endPeriod(rows, matchId, periodNumber, t) ==
  LET cand == EndCandidates(rows, matchId, periodNumber)
  IN IF cand # {} /\ rows[Min(cand)].startTime # NoTime
     THEN LET period == rows[Min(cand)]
          IN [rows EXCEPT ![period.id] =
                [period EXCEPT !.isActive = FALSE, !.isCompleted = TRUE,
                               !.endTime = t,
                               !.elapsedTime =
                                  ElapsedSeconds(t, period.startTime)]]
     ELSE rows

\* Variant with the defect of the earlier release: only an active period
\* counts as the current one.
getCurrentPeriod_ActiveOnly(rows, matchId) ==
  IF ActivePeriods(rows, matchId) = {} THEN NoPeriod
  ELSE rows[Max(ActivePeriods(rows, matchId))]

\* Variant without the reverse(): the lowest period number comes first.
getCurrentPeriod_NoReverse(rows, matchId) ==
  LET mine == PeriodsOf(rows, matchId)
  IN IF mine = {} THEN NoPeriod
     ELSE LET low == Min({rows[i].periodNumber : i \in mine})
          IN rows[Min({i \in mine : rows[i].periodNumber = low})]

\* .where('matchId').equals(matchId).reverse().sortBy('periodNumber')[0]:
\* highest period number; among equal numbers the reversed index order puts
\* the highest primary key first and the sort is stable.
getCurrentPeriod(rows, matchId) ==
  LET mine == PeriodsOf(rows, matchId)
  IN IF mine = {} THEN NoPeriod
     ELSE LET top == Max({rows[i].periodNumber : i \in mine})
          IN rows[Max({i \in mine : rows[i].periodNumber = top})]

\* ------------------------------------------------------------------ clock
\* Time passes; the callback of the timer effect's setInterval runs when
\* its second is up: setElapsedTime(prev => prev + 1).
Advance ==
  /\ now < MaxClock * StepMs
  /\ now' = now + StepMs
  /\ IF isTimerRunning /\ currentPeriod # NoPeriod /\ now' >= timerDue
     THEN /\ elapsedTime' = elapsedTime + 1
          /\ timerDue' = timerDue + MsPerSecond
     ELSE UNCHANGED <<elapsedTime, timerDue>>
  /\ UNCHANGED <<restVars, matchPeriods, dbVars, lastCreated, counted, match,
                 currentPeriod, isTimerRunning, selectedEventType, showPlayerSelection,
                 actionLog>>

\* -------------------------------------------------- event-type names
\* A name is the sequence of its characters (String.includes and
\* String.toLowerCase work on characters).
NameGoal == <<"G","o","a","l">>
NameAssist == <<"A","s","s","i","s","t">>
NameTackle == <<"T","a","c","k","l","e">>
NameSave == <<"S","a","v","e">>
NameYellowCard == <<"Y","e","l","l","o","w"," ","C","a","r","d">>
NameRedCard == <<"R","e","d"," ","C","a","r","d">>
NameCorner == <<"C","o","r","n","e","r">>
NameGoalAssist == <<"G","O","A","L"," ","a","s","s","i","s","t">>
NameYellowRed == <<"Y","e","l","l","o","w","/","R","e","d">>

\* Names an event type can have in this model, and the names the event-type
\* manager renames one to.
EventTypeNames ==
  {NameGoal, NameAssist, NameTackle, NameYellowCard, NameRedCard,
   NameGoalAssist, NameYellowRed}

RenameNames == {NameGoal, NameTackle}

UpperCase == <<"A","B","C","D","E","F","G","H","I","J","K","L","M",
               "N","O","P","Q","R","S","T","U","V","W","X","Y","Z">>
LowerCase == <<"a","b","c","d","e","f","g","h","i","j","k","l","m",
               "n","o","p","q","r","s","t","u","v","w","x","y","z">>

toLowerCase(str) ==
  [i \in 1..Len(str) |->
     IF \E k \in 1..Len(UpperCase) : UpperCase[k] = str[i]
     THEN LowerCase[CHOOSE k \in 1..Len(UpperCase) : UpperCase[k] = str[i]]
     ELSE str[i]]

includes(str, search) ==
  \E i \in 0..(Len(str) - Len(search)) :
    SubSeq(str, i + 1, i + Len(search)) = search

\* ------------------------------------------------------------- seasons
\* db.seasons: auto-increment table without a delete operation.
ActiveSeasons(rows) == {i \in 1..Len(rows) : rows[i].isActive}

\* seasonService.getCurrent: the first active season, NoId when none.
getCurrent(rows) ==
  IF ActiveSeasons(rows) = {} THEN NoId ELSE Min(ActiveSeasons(rows))

Deactivated(rows) == [i \in 1..Len(rows) |-> [rows[i] EXCEPT !.isActive = FALSE]]

\* Variant of create without the modify() of the active seasons.
seasonCreate_KeepsOthers(rows, isActive) ==
  Append(rows, [id |-> Len(rows) + 1, isActive |-> isActive])

seasonCreate(rows, isActive) ==
  Append(IF isActive THEN Deactivated(rows) ELSE rows,
         [id |-> Len(rows) + 1, isActive |-> isActive])

seasonUpdate(rows, id, isActive) ==
  LET others == IF isActive THEN Deactivated(rows) ELSE rows
  IN IF id \in 1..Len(rows)
     THEN [others EXCEPT ![id] = [@ EXCEPT !.isActive = isActive]]
     ELSE others

\* --------------------------------------------------------- player stats
\* db.playerStats: auto-increment table without a delete operation.  The
\* lastUpdated timestamp of a row is not modelled.
StatFields == {"goals", "assists", "yellowCards", "redCards"}

NoStats == [id |-> NoId]

\* playerStatsService.getByPlayer: first row of the (player, season) pair.
getByPlayer(rows, playerId, seasonId) ==
  LET found == {i \in 1..Len(rows) :
                  rows[i].playerId = playerId /\ rows[i].seasonId = seasonId}
  IN IF found = {} THEN NoStats ELSE rows[Min(found)]

\* { ...row, ...changes }
Merge(row, changes) ==
  [f \in DOMAIN row |-> IF f \in DOMAIN changes THEN changes[f] ELSE row[f]]

playerStatsUpdate(rows, playerId, seasonId, teamId, changes) ==
  LET existing == getByPlayer(rows, playerId, seasonId)
  IN IF existing # NoStats /\ existing.id # NoId
     THEN [rows EXCEPT ![existing.id] = Merge(existing, changes)]
     ELSE Append(rows,
            Merge([id |-> Len(rows) + 1, playerId |-> playerId,
                   seasonId |-> seasonId, teamId |-> teamId,
                   goals |-> 0, assists |-> 0, yellowCards |-> 0,
                   redCards |-> 0, matchesPlayed |-> 0], changes))

\* The if / else-if chain over the lower-cased event-type name: the field
\* of the single entry put into `updates`, or "none".
KeyGoal == <<"g","o","a","l">>
KeyAssist == <<"a","s","s","i","s","t">>
KeyYellow == <<"y","e","l","l","o","w">>
KeyRed == <<"r","e","d">>

\* Variant that tests 'assist' before 'goal'.
StatFor_AssistFirst(name) ==
  LET eventTypeName == toLowerCase(name)
  IN IF includes(eventTypeName, KeyAssist) THEN "assists"
     ELSE IF includes(eventTypeName, KeyGoal) THEN "goals"
     ELSE IF includes(eventTypeName, KeyYellow) THEN "yellowCards"
     ELSE IF includes(eventTypeName, KeyRed) THEN "redCards"
     ELSE "none"

StatFor(name) ==
  LET eventTypeName == toLowerCase(name)
  IN IF includes(eventTypeName, KeyGoal) THEN "goals"
     ELSE IF includes(eventTypeName, KeyAssist) THEN "assists"
     ELSE IF includes(eventTypeName, KeyYellow) THEN "yellowCards"
     ELSE IF includes(eventTypeName, KeyRed) THEN "redCards"
     ELSE "none"

\* updates.<field> || 0
UpdateOr0(field, stat, multiplier) == IF field = stat THEN multiplier ELSE 0

\* Variant whose 'remove' adds as well.
updatePlayerStatsForEvent_AlwaysAdds(rows, event, action) ==
  IF event.playerId = NoId THEN rows
  ELSE IF event.matchId \notin DOMAIN matches THEN rows
  ELSE IF event.playerId \notin DOMAIN players THEN rows
  ELSE IF getCurrent(seasons) = NoId THEN rows
  ELSE IF event.eventTypeId \notin DOMAIN eventTypes THEN rows
  ELSE
    LET seasonId == getCurrent(seasons)
        stat == StatFor(eventTypes[event.eventTypeId].name)
        currentStats == getByPlayer(rows, event.playerId, seasonId)
        newStats ==
          IF currentStats # NoStats
          THEN [f \in StatFields |-> currentStats[f] + UpdateOr0(f, stat, 1)]
          ELSE [f \in {stat} |-> 1]
    IN IF stat = "none" THEN rows
       ELSE playerStatsUpdate(rows, event.playerId, seasonId,
                              players[event.playerId].teamId, newStats)

updatePlayerStatsForEvent(rows, event, action) ==
  IF event.playerId = NoId THEN rows
  ELSE IF event.matchId \notin DOMAIN matches THEN rows
  ELSE IF event.playerId \notin DOMAIN players THEN rows
  ELSE IF getCurrent(seasons) = NoId THEN rows
  ELSE IF event.eventTypeId \notin DOMAIN eventTypes THEN rows
  ELSE
    LET seasonId == getCurrent(seasons)
        multiplier == IF action = "add" THEN 1 ELSE 0 - 1
        stat == StatFor(eventTypes[event.eventTypeId].name)
        currentStats == getByPlayer(rows, event.playerId, seasonId)
        newStats ==
          IF currentStats # NoStats
          THEN [f \in StatFields |->
                  currentStats[f] + UpdateOr0(f, stat, multiplier)]
          ELSE [f \in {stat} |-> multiplier]
    IN IF stat = "none" THEN rows
       ELSE playerStatsUpdate(rows, event.playerId, seasonId,
                              players[event.playerId].teamId, newStats)

\* --------------------------------------------------------- match events
\* Variant without the hook: the row keeps the caller's syncStatus.
StoredEvent_KeepsStatus(id, event) ==
  [id |-> id, matchId |-> event.matchId, eventTypeId |-> event.eventTypeId,
   playerId |-> event.playerId, periodNumber |-> event.periodNumber,
   timestamp |-> event.timestamp, syncStatus |-> event.syncStatus]

\* The creating hook stores every row with syncStatus 'pending'.
StoredEvent(id, event) ==
  [id |-> id, matchId |-> event.matchId, eventTypeId |-> event.eventTypeId,
   playerId |-> event.playerId, periodNumber |-> event.periodNumber,
   timestamp |-> event.timestamp, syncStatus |-> "pending"]

PutRow(table, id, row) ==
  [k \in DOMAIN table \cup {id} |-> IF k = id THEN row ELSE table[k]]

DropRow(table, id) == [k \in DOMAIN table \ {id} |-> table[k]]

\* ------------------------------------------ service-level period tracker
\* The matches that have been created; the highest id of the model is
\* the id of no match.
ExistingMatchIds == 1..(MaxMatches - 1)

NewMatch(id, periods) ==
  [id |-> id, teamId |-> 1, periods |-> periods, totalElapsedTime |-> 0,
   isStarted |-> FALSE, isCompleted |-> FALSE, currentPeriod |-> 0]

PlayerRow(id) == [id |-> id, teamId |-> 1, isActive |-> TRUE]

EventTypeRow(id, name, requiresPlayer, isActive) ==
  [id |-> id, teamId |-> 1, name |-> name,
   requiresPlayer |-> requiresPlayer, isActive |-> isActive]

NoCreated == [stage |-> "none"]

NoMatch == [id |-> NoId]

\* No logger is mounted.
InitNoLogger ==
  /\ match = NoMatch
  /\ currentPeriod = NoPeriod
  /\ elapsedTime = 0
  /\ isTimerRunning = FALSE
  /\ timerDue = 0
  /\ selectedEventType = NoId
  /\ showPlayerSelection = FALSE
  /\ actionLog = <<>>

TeamRow(id) == [id |-> id, isActive |-> TRUE]

UserRow(id, role) == [id |-> id, role |-> role]

\* The users of the seed, and the keys after one team and the stored event
\* types have been added.
InitKeys ==
  /\ users = <<UserRow(1, "coach"), UserRow(2, "parent")>>
  /\ nextTeamId = 2
  /\ nextEventTypeId = Max(DOMAIN eventTypes \cup {0}) + 1
  /\ recorded = 0

\* One team, no award generated, no service call in flight.
InitIdle ==
  /\ teams = [t \in {1} |-> TeamRow(t)]
  /\ awards = <<>>
  /\ awardsReturned = <<>>
  /\ calls = <<>>
  /\ InitKeys

\* The store after seeding: the roster, one current season, no events.
InitStore ==
  /\ players = [p \in PlayerIds |-> PlayerRow(p)]
  /\ seasons = <<[id |-> 1, isActive |-> TRUE]>>
  /\ matchEvents = <<>>
  /\ nextEventId = 1
  /\ playerStats = <<>>
  /\ lastCreated = NoCreated
  /\ counted = <<>>
  /\ InitIdle

InitPeriods ==
  /\ now = 0
  /\ matches = [m \in ExistingMatchIds |-> NewMatch(m, MaxPeriods)]
  /\ matchPeriods = <<>>
  /\ eventTypes = [i \in EventTypeIds |-> EventTypeRow(i, NameGoal, TRUE, TRUE)]
  /\ InitStore
  /\ InitNoLogger

StartPeriodCall(matchId, periodNumber) ==
  /\ Len(matchPeriods) < MaxPeriodRows
  /\ matchPeriods' = startPeriod(matchPeriods, matchId, periodNumber, now)
  /\ UNCHANGED <<restVars, now, dbVars, lastCreated, counted, uiVars>>

EndPeriodCall(matchId, periodNumber) ==
  /\ matchPeriods' = endPeriod(matchPeriods, matchId, periodNumber, now)
  /\ UNCHANGED <<restVars, now, dbVars, lastCreated, counted, uiVars>>

NextPeriods ==
  \/ Advance
  \/ \E m \in MatchIds, n \in PeriodNumbers : StartPeriodCall(m, n)
  \/ \E m \in MatchIds, n \in PeriodNumbers : EndPeriodCall(m, n)

SpecPeriods == InitPeriods /\ [][NextPeriods]_vars

\* --------------------------------------- events, statistics and seasons
Resolves(event) ==
  /\ event.playerId # NoId
  /\ event.matchId \in DOMAIN matches
  /\ event.playerId \in DOMAIN players
  /\ getCurrent(seasons) # NoId
  /\ event.eventTypeId \in DOMAIN eventTypes

Counters(rows, playerId, seasonId) ==
  LET found == {i \in 1..Len(rows) :
                  rows[i].playerId = playerId /\ rows[i].seasonId = seasonId}
  IN IF found = {} THEN [f \in StatFields |-> 0]
     ELSE [f \in StatFields |-> rows[Min(found)][f]]

\* History of the latest created event whose references resolve: the
\* counters of its (player, season) row before the creation.  It is dropped
\* as soon as another event of the same player is created or deleted.
TrackCreate(id, event) ==
  IF Resolves(event)
  THEN [stage |-> "created", id |-> id, playerId |-> event.playerId,
        seasonId |-> getCurrent(seasons),
        name |-> eventTypes[event.eventTypeId].name,
        before |-> Counters(playerStats, event.playerId, getCurrent(seasons))]
  ELSE IF lastCreated.stage # "none" /\ lastCreated.playerId = event.playerId
  THEN NoCreated
  ELSE lastCreated

TrackDelete(event) ==
  IF lastCreated.stage = "none" THEN lastCreated
  ELSE IF lastCreated.stage = "created" /\ lastCreated.id = event.id
  THEN IF /\ getCurrent(seasons) = lastCreated.seasonId
          /\ event.eventTypeId \in DOMAIN eventTypes
          /\ eventTypes[event.eventTypeId].name = lastCreated.name
          /\ Resolves(event)
       THEN [lastCreated EXCEPT !.stage = "deleted"]
       ELSE NoCreated
  ELSE IF lastCreated.playerId = event.playerId THEN NoCreated
  ELSE lastCreated

\* History of the stored events: the player, season and counter that the
\* creation of the event added 1 to, for the events that added anything.
NotCounted == [stat |-> "none"]

CountedAs(event) ==
  IF Resolves(event) /\ StatFor(eventTypes[event.eventTypeId].name) # "none"
  THEN [playerId |-> event.playerId, seasonId |-> getCurrent(seasons),
        stat |-> StatFor(eventTypes[event.eventTypeId].name)]
  ELSE NotCounted

\* matchEventService.create
CreateEvent(event) ==
  /\ nextEventId <= MaxEventRows
  /\ matchEvents' = PutRow(matchEvents, nextEventId,
                           StoredEvent(nextEventId, event))
  /\ nextEventId' = nextEventId + 1
  /\ playerStats' = IF event.playerId # NoId
                    THEN updatePlayerStatsForEvent(playerStats, event, "add")
                    ELSE playerStats
  /\ lastCreated' = TrackCreate(nextEventId, event)
  /\ counted' = IF CountedAs(event) # NotCounted
                THEN PutRow(counted, nextEventId, CountedAs(event))
                ELSE counted

\* matchEventService.delete
DeleteEvent(id) ==
  /\ matchEvents' = DropRow(matchEvents, id)
  /\ playerStats' =
       IF id \in DOMAIN matchEvents /\ matchEvents[id].playerId # NoId
       THEN updatePlayerStatsForEvent(playerStats, matchEvents[id], "remove")
       ELSE playerStats
  /\ lastCreated' = IF id \in DOMAIN matchEvents
                    THEN TrackDelete(matchEvents[id]) ELSE lastCreated
  /\ counted' = DropRow(counted, id)
  /\ UNCHANGED nextEventId

NewEvent(matchId, eventTypeId, playerId, periodNumber, timestamp) ==
  [matchId |-> matchId, eventTypeId |-> eventTypeId, playerId |-> playerId,
   periodNumber |-> periodNumber, timestamp |-> timestamp,
   syncStatus |-> "pending"]

CreateEventCall(matchId, eventTypeId, playerId) ==
  /\ CreateEvent(NewEvent(matchId, eventTypeId, playerId, 1, 0))
  /\ UNCHANGED <<restVars, now, matchPeriods, matches, players, eventTypes, seasons,
                 uiVars>>

DeleteEventCall(id) ==
  /\ DeleteEvent(id)
  /\ UNCHANGED <<restVars, now, matchPeriods, matches, players, eventTypes, seasons,
                 uiVars>>

SeasonCreateCall(isActive) ==
  /\ Len(seasons) < MaxSeasons
  /\ seasons' = seasonCreate(seasons, isActive)
  /\ UNCHANGED <<restVars, now, matchPeriods, matches, players, eventTypes,
                 matchEvents, nextEventId, playerStats, lastCreated, counted,
                 uiVars>>

SeasonUpdateCall(id, isActive) ==
  /\ seasons' = seasonUpdate(seasons, id, isActive)
  /\ UNCHANGED <<restVars, now, matchPeriods, matches, players, eventTypes,
                 matchEvents, nextEventId, playerStats, lastCreated, counted,
                 uiVars>>

\* eventTypeService.update(id, { name })
EventTypeUpdateCall(id, name) ==
  /\ id \in DOMAIN eventTypes
  /\ eventTypes' = [eventTypes EXCEPT ![id] = [@ EXCEPT !.name = name]]
  /\ UNCHANGED <<restVars, now, matchPeriods, matches, players, seasons,
                 matchEvents, nextEventId, playerStats, lastCreated, counted,
                 uiVars>>

\* eventTypeService.delete
EventTypeDeleteCall(id) ==
  /\ id \in DOMAIN eventTypes
  /\ eventTypes' = DropRow(eventTypes, id)
  /\ UNCHANGED <<restVars, now, matchPeriods, matches, players, seasons,
                 matchEvents, nextEventId, playerStats, lastCreated, counted,
                 uiVars>>

\* A team with the first default event types, Goal and Assist by turns.
InitStats ==
  /\ now = 0
  /\ matches = [m \in ExistingMatchIds |-> NewMatch(m, MaxPeriods)]
  /\ matchPeriods = <<>>
  /\ eventTypes = [i \in EventTypeIds |->
                     EventTypeRow(i, IF i % 2 = 1 THEN NameGoal
                                     ELSE NameAssist, TRUE, TRUE)]
  /\ InitStore
  /\ InitNoLogger

NextStats ==
  \/ \E m \in MatchIds, et \in EventTypeIds, p \in PlayerIds \cup {NoId} :
       CreateEventCall(m, et, p)
  \/ \E id \in 1..MaxEventRows : DeleteEventCall(id)
  \/ \E a \in BOOLEAN : SeasonCreateCall(a)
  \/ \E id \in 1..MaxSeasons, a \in BOOLEAN : SeasonUpdateCall(id, a)
  \/ \E id \in EventTypeIds, name \in RenameNames :
       EventTypeUpdateCall(id, name)
  \/ \E id \in EventTypeIds : EventTypeDeleteCall(id)

SpecStats == InitStats /\ [][NextStats]_vars

\* ------------------------- the aggregator applied to every kind of name
InitAggregate ==
  /\ now = 0
  /\ matches = [m \in ExistingMatchIds |-> NewMatch(m, MaxPeriods)]
  /\ matchPeriods = <<>>
  /\ \E names \in [EventTypeIds -> EventTypeNames] :
       eventTypes = [i \in EventTypeIds |->
                       EventTypeRow(i, names[i], TRUE, TRUE)]
  /\ players = [p \in PlayerIds |-> PlayerRow(p)]
  /\ \E a \in BOOLEAN : seasons = <<[id |-> 1, isActive |-> a]>>
  /\ matchEvents = <<>>
  /\ nextEventId = 1
  /\ playerStats = <<>>
  /\ lastCreated = NoCreated
  /\ counted = <<>>
  /\ InitIdle
  /\ InitNoLogger

NextAggregate ==
  \/ \E m \in MatchIds, et \in EventTypeIds, p \in PlayerIds \cup {NoId} :
       CreateEventCall(m, et, p)
  \/ \E id \in 1..MaxEventRows : DeleteEventCall(id)

SpecAggregate == InitAggregate /\ [][NextAggregate]_vars

\* ------------------------------------------------------------ sync status
\* MatchEvent['syncStatus']
SyncStatuses == {"pending", "synced", "failed"}

\* matchEventService.create with the syncStatus the caller puts in the event
CreateEventAs(matchId, eventTypeId, playerId, syncStatus) ==
  /\ CreateEvent([NewEvent(matchId, eventTypeId, playerId, 1, 0)
                    EXCEPT !.syncStatus = syncStatus])
  /\ UNCHANGED <<restVars, now, matchPeriods, matches, players, eventTypes,
                 seasons, uiVars>>

\* matchEventService.updateSyncStatus: db.matchEvents.update(id, { syncStatus })
UpdateSyncStatusCall(id, syncStatus) ==
  /\ matchEvents' = IF id \in DOMAIN matchEvents
                    THEN [matchEvents EXCEPT ![id].syncStatus = syncStatus]
                    ELSE matchEvents
  /\ UNCHANGED <<restVars, now, matchPeriods, matches, players, eventTypes,
                 seasons, nextEventId, playerStats, lastCreated, counted, uiVars>>

NextSync ==
  \/ \E m \in MatchIds, et \in EventTypeIds, p \in PlayerIds \cup {NoId},
        st \in SyncStatuses : CreateEventAs(m, et, p, st)
  \/ \E id \in 1..MaxEventRows, st \in SyncStatuses :
       UpdateSyncStatusCall(id, st)
  \/ \E id \in 1..MaxEventRows : DeleteEventCall(id)

SpecSync == InitStats /\ [][NextSync]_vars

\* ------------------------------------ service calls that overlap at awaits
\* A call of matchEventService.create or matchEventService.delete is a
\* record in `calls`: pc names the store operation it will issue next, the
\* other fields are the locals it has read so far.  Every store operation is
\* a transaction of its own; what a call does between two awaits is one step.
NewCall(op, event) ==
  [op |-> op, pc |-> IF op = "create" THEN "add" ELSE "getEvent",
   event |-> event, teamId |-> NoId, seasonId |-> NoId, stat |-> "none",
   newStats |-> <<>>, existing |-> NoId]

RemoveAt(seq, i) == SubSeq(seq, 1, i - 1) \o SubSeq(seq, i + 1, Len(seq))

\* The call leaves updatePlayerStatsForEvent: create returns, delete goes on
\* to remove the row.
AfterStats(i) ==
  IF calls[i].op = "create" THEN RemoveAt(calls, i)
  ELSE [calls EXCEPT ![i].pc = "deleteRow"]

Multiplier(op) == IF op = "create" THEN 1 ELSE 0 - 1

\* newStats of updatePlayerStatsForEvent, from the row read into currentStats.
NewStats(currentStats, stat, multiplier) ==
  IF currentStats # NoStats
  THEN [f \in StatFields |-> currentStats[f] + UpdateOr0(f, stat, multiplier)]
  ELSE [f \in {stat} |-> multiplier]

\* The write of playerStatsService.update, decided by the row read before.
WriteStats(rows, existing, playerId, seasonId, teamId, changes) ==
  IF existing # NoId
  THEN IF existing \in 1..Len(rows)
       THEN [rows EXCEPT ![existing] = Merge(rows[existing], changes)]
       ELSE rows
  ELSE Append(rows,
         Merge([id |-> Len(rows) + 1, playerId |-> playerId,
                seasonId |-> seasonId, teamId |-> teamId,
                goals |-> 0, assists |-> 0, yellowCards |-> 0,
                redCards |-> 0, matchesPlayed |-> 0], changes))

BeginCreate(matchId, eventTypeId, playerId) ==
  /\ Len(calls) < MaxCalls
  /\ nextEventId + Cardinality({i \in 1..Len(calls) : calls[i].pc = "add"})
       <= MaxEventRows
  /\ calls' = Append(calls,
                NewCall("create", NewEvent(matchId, eventTypeId, playerId, 1, 0)))
  /\ UNCHANGED <<now, matchPeriods, dbVars, lastCreated, counted, uiVars, teams,
                 awards, awardsReturned, sideVars>>

BeginDelete(id) ==
  /\ Len(calls) < MaxCalls
  /\ calls' = Append(calls, NewCall("delete", [id |-> id]))
  /\ UNCHANGED <<now, matchPeriods, dbVars, lastCreated, counted, uiVars, teams,
                 awards, awardsReturned, sideVars>>

\* The next store operation of call i and the code up to its next await.
StepCall(i) ==
  LET c == calls[i]
      e == c.event
  IN /\ i \in 1..Len(calls)
     /\ CASE c.pc = "add" ->
               /\ matchEvents' = PutRow(matchEvents, nextEventId,
                                        StoredEvent(nextEventId, e))
               /\ nextEventId' = nextEventId + 1
               /\ calls' = IF e.playerId # NoId
                           THEN [calls EXCEPT ![i].pc = "getMatch",
                                   ![i].event = StoredEvent(nextEventId, e)]
                           ELSE RemoveAt(calls, i)
               /\ UNCHANGED <<playerStats, counted>>
          [] c.pc = "getEvent" ->
               /\ calls' = IF e.id \in DOMAIN matchEvents
                           THEN IF matchEvents[e.id].playerId # NoId
                                THEN [calls EXCEPT ![i].pc = "getMatch",
                                        ![i].event = matchEvents[e.id]]
                                ELSE [calls EXCEPT ![i].pc = "deleteRow",
                                        ![i].event = matchEvents[e.id]]
                           ELSE [calls EXCEPT ![i].pc = "deleteRow"]
               /\ UNCHANGED <<matchEvents, nextEventId, playerStats, counted>>
          [] c.pc = "getMatch" ->
               /\ calls' = IF e.matchId \in DOMAIN matches
                           THEN [calls EXCEPT ![i].pc = "getPlayer"]
                           ELSE AfterStats(i)
               /\ UNCHANGED <<matchEvents, nextEventId, playerStats, counted>>
          [] c.pc = "getPlayer" ->
               /\ calls' = IF e.playerId \in DOMAIN players
                           THEN [calls EXCEPT ![i].pc = "getSeason",
                                   ![i].teamId = players[e.playerId].teamId]
                           ELSE AfterStats(i)
               /\ UNCHANGED <<matchEvents, nextEventId, playerStats, counted>>
          [] c.pc = "getSeason" ->
               /\ calls' = IF getCurrent(seasons) # NoId
                           THEN [calls EXCEPT ![i].pc = "getEventType",
                                   ![i].seasonId = getCurrent(seasons)]
                           ELSE AfterStats(i)
               /\ UNCHANGED <<matchEvents, nextEventId, playerStats, counted>>
          [] c.pc = "getEventType" ->
               /\ calls' =
                    IF /\ e.eventTypeId \in DOMAIN eventTypes
                       /\ StatFor(eventTypes[e.eventTypeId].name) # "none"
                    THEN [calls EXCEPT ![i].pc = "getCurrentStats",
                            ![i].stat = StatFor(eventTypes[e.eventTypeId].name)]
                    ELSE AfterStats(i)
               /\ UNCHANGED <<matchEvents, nextEventId, playerStats, counted>>
          [] c.pc = "getCurrentStats" ->
               /\ calls' =
                    [calls EXCEPT ![i].pc = "getExisting",
                       ![i].newStats =
                          NewStats(getByPlayer(playerStats, e.playerId,
                                               c.seasonId),
                                   c.stat, Multiplier(c.op))]
               /\ UNCHANGED <<matchEvents, nextEventId, playerStats, counted>>
          [] c.pc = "getExisting" ->
               /\ calls' =
                    [calls EXCEPT ![i].pc = "write",
                       ![i].existing =
                          getByPlayer(playerStats, e.playerId, c.seasonId).id]
               /\ UNCHANGED <<matchEvents, nextEventId, playerStats, counted>>
          [] c.pc = "write" ->
               /\ playerStats' = WriteStats(playerStats, c.existing, e.playerId,
                                            c.seasonId, c.teamId, c.newStats)
               /\ calls' = AfterStats(i)
               /\ counted' = IF c.op = "create"
                             THEN PutRow(counted, e.id,
                                    [playerId |-> e.playerId,
                                     seasonId |-> c.seasonId, stat |-> c.stat])
                             ELSE counted
               /\ UNCHANGED <<matchEvents, nextEventId>>
          [] c.pc = "deleteRow" ->
               /\ matchEvents' = DropRow(matchEvents, e.id)
               /\ calls' = RemoveAt(calls, i)
               /\ counted' = DropRow(counted, e.id)
               /\ UNCHANGED <<nextEventId, playerStats>>
     /\ UNCHANGED <<now, matchPeriods, matches, players, eventTypes, seasons,
                    lastCreated, uiVars, teams, awards, awardsReturned,
                    sideVars>>

NextAsync ==
  \/ \E m \in MatchIds, et \in EventTypeIds, p \in PlayerIds \cup {NoId} :
       BeginCreate(m, et, p)
  \/ \E id \in 1..MaxEventRows : BeginDelete(id)
  \/ \E i \in 1..MaxCalls : StepCall(i)

SpecAsync == InitStats /\ [][NextAsync]_vars

\* ------------------------------------------------------ deleting a match
\* The events of a match by timestamp: where('matchId').equals(matchId)
\* yields them in key order and sortBy('timestamp') is stable.
RECURSIVE SortedIds(_, _)
SortedIds(table, ids) ==
  IF ids = {} THEN <<>>
  ELSE LET first == CHOOSE i \in ids :
                      \A j \in ids :
                        \/ table[i].timestamp < table[j].timestamp
                        \/ table[i].timestamp = table[j].timestamp /\ i <= j
       IN <<first>> \o SortedIds(table, ids \ {first})

getByMatch(table, matchId) ==
  SortedIds(table, {id \in DOMAIN table : table[id].matchId = matchId})

\* The loop of matchService.delete: matchEventService.delete for each event
\* in turn, which reverses the statistics of an event with a player.
RECURSIVE StatsAfterDeletes(_, _, _)
StatsAfterDeletes(rows, table, ids) ==
  IF ids = <<>> THEN rows
  ELSE StatsAfterDeletes(
         IF table[Head(ids)].playerId # NoId
         THEN updatePlayerStatsForEvent(rows, table[Head(ids)], "remove")
         ELSE rows,
         table, Tail(ids))

\* matchService.delete
MatchDeleteCall(id) ==
  LET events == getByMatch(matchEvents, id)
      gone == {events[k] : k \in 1..Len(events)}
  IN /\ playerStats' = StatsAfterDeletes(playerStats, matchEvents, events)
     /\ matchEvents' = [k \in DOMAIN matchEvents \ gone |-> matchEvents[k]]
     /\ counted' = [k \in DOMAIN counted \ gone |-> counted[k]]
     /\ lastCreated' = IF gone = {} THEN lastCreated ELSE NoCreated
     /\ matches' = DropRow(matches, id)
     /\ UNCHANGED <<restVars, now, matchPeriods, players, eventTypes,
                    seasons, nextEventId, uiVars>>

\* playerService.delete
PlayerDeleteCall(id) ==
  /\ id \in DOMAIN players
  /\ players' = DropRow(players, id)
  /\ UNCHANGED <<restVars, now, matchPeriods, matches, eventTypes, seasons,
                 matchEvents, nextEventId, playerStats, lastCreated, counted,
                 uiVars>>

NextCascade ==
  \/ \E m \in MatchIds, et \in EventTypeIds, p \in PlayerIds \cup {NoId} :
       CreateEventCall(m, et, p)
  \/ \E id \in 1..MaxEventRows : DeleteEventCall(id)
  \/ \E a \in BOOLEAN : SeasonCreateCall(a)
  \/ \E id \in EventTypeIds, name \in RenameNames :
       EventTypeUpdateCall(id, name)
  \/ \E id \in PlayerIds : PlayerDeleteCall(id)
  \/ \E id \in MatchIds : MatchDeleteCall(id)

SpecCascade == InitStats /\ [][NextCascade]_vars

\* ---------------------------------------------------------------- awards
\* db.awards: auto-increment table, rows are only ever added.
\* playerStatsService.getByTeamAndSeason: the rows of the team and season in
\* primary-key order, those whose player and team still exist, sorted by
\* goals, highest first (Array.prototype.sort is stable).
Enriched(rows, teamId, seasonId) ==
  LET Keep(stat) == /\ stat.teamId = teamId /\ stat.seasonId = seasonId
                    /\ stat.playerId \in DOMAIN players
                    /\ stat.teamId \in DOMAIN teams
  IN SelectSeq(rows, Keep)

InsertByGoals(sorted, stat) ==
  LET before == Cardinality({k \in 1..Len(sorted) :
                               sorted[k].goals >= stat.goals})
  IN SubSeq(sorted, 1, before) \o <<stat>>
       \o SubSeq(sorted, before + 1, Len(sorted))

RECURSIVE SortByGoals(_)
SortByGoals(stats) ==
  IF stats = <<>> THEN <<>>
  ELSE InsertByGoals(SortByGoals(SubSeq(stats, 1, Len(stats) - 1)),
                     stats[Len(stats)])

getByTeamAndSeason(rows, teamId, seasonId) ==
  SortByGoals(Enriched(rows, teamId, seasonId))

\* Variant in which a later element of equal value replaces the maximum.
RECURSIVE ReduceMax_LastWins(_, _, _, _)
ReduceMax_LastWins(stats, field, max, k) ==
  IF k > Len(stats) THEN max
  ELSE ReduceMax_LastWins(stats, field,
         IF stats[k][field] >= max[field] THEN stats[k] ELSE max, k + 1)

\* stats.reduce((max, current) => current[field] > max[field] ? current : max)
\* from element k on, with max the accumulator.
RECURSIVE ReduceMax(_, _, _, _)
ReduceMax(stats, field, max, k) ==
  IF k > Len(stats) THEN max
  ELSE ReduceMax(stats, field,
                 IF stats[k][field] > max[field] THEN stats[k] ELSE max, k + 1)

NewAward(seasonId, teamId, playerId, awardType, value) ==
  [seasonId |-> seasonId, teamId |-> teamId, playerId |-> playerId,
   awardType |-> awardType, value |-> value]

\* Variant that leaves out the comparison with the top scorer.
AwardsFor_NoTopScorerTest(stats, seasonId, teamId) ==
  LET topScorer == ReduceMax(stats, "goals", stats[1], 2)
      mostAssists == ReduceMax(stats, "assists", stats[1], 2)
  IN (IF topScorer.goals > 0
      THEN <<NewAward(seasonId, teamId, topScorer.playerId, "top_scorer",
                      topScorer.goals)>>
      ELSE <<>>)
     \o (IF mostAssists.assists > 0
         THEN <<NewAward(seasonId, teamId, mostAssists.playerId,
                         "most_assists", mostAssists.assists)>>
         ELSE <<>>)

\* The `awards` array of generateSeasonAwards for a non-empty stats list.
AwardsFor(stats, seasonId, teamId) ==
  LET topScorer == ReduceMax(stats, "goals", stats[1], 2)
      mostAssists == ReduceMax(stats, "assists", stats[1], 2)
  IN (IF topScorer.goals > 0
      THEN <<NewAward(seasonId, teamId, topScorer.playerId, "top_scorer",
                      topScorer.goals)>>
      ELSE <<>>)
     \o (IF mostAssists.assists > 0
            /\ mostAssists.playerId # topScorer.playerId
         THEN <<NewAward(seasonId, teamId, mostAssists.playerId,
                         "most_assists", mostAssists.assists)>>
         ELSE <<>>)

generateSeasonAwards(rows, seasonId, teamId) ==
  LET stats == getByTeamAndSeason(rows, teamId, seasonId)
  IN IF Len(stats) = 0 THEN <<>> ELSE AwardsFor(stats, seasonId, teamId)

\* The rows db.awards.add stores for the array: each gets the next key,
\* which the store also writes into the object of the array.
StoredAwards(table, new) ==
  [k \in 1..Len(new) |->
     [id |-> Len(table) + k, seasonId |-> new[k].seasonId,
      teamId |-> new[k].teamId, playerId |-> new[k].playerId,
      awardType |-> new[k].awardType, value |-> new[k].value]]

\* Variant that replaces the earlier awards of the same type, team and season.
SaveAwards_Replace(table, new) ==
  LET Keep(old) == \A k \in 1..Len(new) :
                     \/ old.awardType # new[k].awardType
                     \/ old.teamId # new[k].teamId
                     \/ old.seasonId # new[k].seasonId
  IN SelectSeq(table, Keep) \o StoredAwards(table, new)

\* for (const award of awards) await db.awards.add(award)
SaveAwards(table, new) == table \o StoredAwards(table, new)

TeamIds == {1, 2}
SeasonIds == 1..MaxSeasons

GenerateSeasonAwardsCall(seasonId, teamId) ==
  LET new == generateSeasonAwards(playerStats, seasonId, teamId)
  IN /\ Len(awards) + Len(new) <= MaxAwardRows
     /\ awards' = SaveAwards(awards, new)
     /\ awardsReturned' = StoredAwards(awards, new)
     /\ UNCHANGED <<now, matchPeriods, dbVars, lastCreated, counted, uiVars, teams,
                    calls, sideVars>>

StatsRow(id, playerId, seasonId, goals, assists) ==
  [id |-> id, playerId |-> playerId, seasonId |-> seasonId, teamId |-> 1,
   goals |-> goals, assists |-> assists, yellowCards |-> 0, redCards |-> 0,
   matchesPlayed |-> 0]

\* A season's statistics as the aggregator leaves them, for the players of
\* team 1; the last player or the team may have been deleted since.
InitAwards ==
  /\ now = 0
  /\ matches = [m \in ExistingMatchIds |-> NewMatch(m, MaxPeriods)]
  /\ matchPeriods = <<>>
  /\ eventTypes = [i \in EventTypeIds |-> EventTypeRow(i, NameGoal, TRUE, TRUE)]
  /\ \E gone \in SUBSET {MaxPlayers} :
       players = [p \in PlayerIds \ gone |-> PlayerRow(p)]
  /\ seasons = [i \in SeasonIds |-> [id |-> i, isActive |-> i = MaxSeasons]]
  /\ matchEvents = <<>>
  /\ nextEventId = 1
  /\ \E n \in 0..MaxStatRows :
       \E p \in [1..n -> PlayerIds], se \in [1..n -> SeasonIds],
          g \in [1..n -> 0..MaxStatValue], a \in [1..n -> 0..MaxStatValue] :
         playerStats = [i \in 1..n |-> StatsRow(i, p[i], se[i], g[i], a[i])]
  /\ lastCreated = NoCreated
  /\ counted = <<>>
  /\ \E t \in SUBSET {1} : teams = [id \in t |-> TeamRow(id)]
  /\ awards = <<>>
  /\ awardsReturned = <<>>
  /\ calls = <<>>
  /\ InitKeys
  /\ InitNoLogger

NextAwards ==
  \E seasonId \in SeasonIds, teamId \in TeamIds :
    GenerateSeasonAwardsCall(seasonId, teamId)

SpecAwards == InitAwards /\ [][NextAwards]_vars

\* --------------------------------------------------- MobileEventLogger
NoAction == [action |-> "none", periodNumber |-> 0]

\* Variant that takes the end of the match from the match row.
getNextAction_ByMatchFlag(period, m) ==
  IF period = NoPeriod THEN [action |-> "start", periodNumber |-> 1]
  ELSE IF period.isActive
  THEN [action |-> "end", periodNumber |-> period.periodNumber]
  ELSE IF ~m.isCompleted
  THEN [action |-> "start", periodNumber |-> period.periodNumber + 1]
  ELSE NoAction

getNextAction(period, m) ==
  IF period = NoPeriod THEN [action |-> "start", periodNumber |-> 1]
  ELSE IF period.isActive
  THEN [action |-> "end", periodNumber |-> period.periodNumber]
  ELSE IF period.periodNumber < m.periods
  THEN [action |-> "start", periodNumber |-> period.periodNumber + 1]
  ELSE NoAction

\* db.matches.update(id, changes)
matchUpdate(table, id, changes) ==
  IF id \in DOMAIN table
  THEN [table EXCEPT ![id] = Merge(table[id], changes)]
  ELSE table

\* loadCurrentPeriod, run by the render whose props are m: the new values
\* of currentPeriod, isTimerRunning and elapsedTime.
loadCurrentPeriod(rows, m, t, shown) ==
  LET period == getCurrentPeriod(rows, m.id)
  IN IF period # NoPeriod /\ period.isActive
     THEN [currentPeriod |-> period, isTimerRunning |-> TRUE,
           elapsedTime |-> IF period.startTime # NoTime
                           THEN m.totalElapsedTime
                                  + ElapsedSeconds(t, period.startTime)
                           ELSE shown]
     ELSE [currentPeriod |-> period, isTimerRunning |-> FALSE,
           elapsedTime |-> m.totalElapsedTime]

\* onMatchUpdate(): the host of the logger reads the match again and passes
\* it down as the new match prop.
onMatchUpdate(table, m) ==
  IF m.id \in DOMAIN table THEN table[m.id] ELSE m

\* Variant that marks the match complete only past the last period.
MatchChanges_AfterLast(nextAction, m, shown) ==
  IF nextAction.action = "start"
  THEN IF nextAction.periodNumber = 1
       THEN [isStarted |-> TRUE, currentPeriod |-> nextAction.periodNumber]
       ELSE [currentPeriod |-> nextAction.periodNumber]
  ELSE [totalElapsedTime |-> shown,
        isCompleted |-> nextAction.periodNumber > m.periods]

\* The write to db.matches of each branch of handlePeriodAction.
MatchChanges(nextAction, m, shown) ==
  IF nextAction.action = "start"
  THEN IF nextAction.periodNumber = 1
       THEN [isStarted |-> TRUE, currentPeriod |-> nextAction.periodNumber]
       ELSE [currentPeriod |-> nextAction.periodNumber]
  ELSE [totalElapsedTime |-> shown,
        isCompleted |-> nextAction.periodNumber >= m.periods]

HandlePeriodAction ==
  LET nextAction == getNextAction(currentPeriod, match)
      rows == IF nextAction.action = "start"
              THEN startPeriod(matchPeriods, match.id,
                               nextAction.periodNumber, now)
              ELSE endPeriod(matchPeriods, match.id,
                             nextAction.periodNumber, now)
      table == matchUpdate(matches, match.id,
                           MatchChanges(nextAction, match, elapsedTime))
      loaded == loadCurrentPeriod(rows, match, now, elapsedTime)
  IN /\ match.id # NoId
     /\ nextAction # NoAction
     /\ matchPeriods' = rows
     /\ matches' = table
     /\ currentPeriod' = loaded.currentPeriod
     /\ isTimerRunning' = loaded.isTimerRunning
     /\ elapsedTime' = loaded.elapsedTime
     /\ timerDue' = IF loaded.isTimerRunning THEN now + MsPerSecond ELSE 0
     /\ match' = onMatchUpdate(table, match)
     /\ actionLog' = Append(actionLog, nextAction)
     /\ UNCHANGED <<restVars, now, statVars, selectedEventType, showPlayerSelection>>

\* The lists loadData puts on the screen.
LoadedEventTypes ==
  {id \in DOMAIN eventTypes :
     eventTypes[id].teamId = match.teamId /\ eventTypes[id].isActive}

LoadedPlayers ==
  {id \in DOMAIN players :
     players[id].teamId = match.teamId /\ players[id].isActive}

\* recordEvent past its guard: the row is created, the selection reset.
RecordEvent(eventTypeId, playerId) ==
  /\ CreateEvent(NewEvent(match.id, eventTypeId, playerId,
                          currentPeriod.periodNumber, elapsedTime))
  /\ selectedEventType' = NoId
  /\ showPlayerSelection' = FALSE

recordEventReturnsEarly(eventTypeId) ==
  match.id = NoId \/ currentPeriod = NoPeriod \/ eventTypeId = NoId

\* A button of the event-type grid, rendered while the current period is
\* active and the player panel is closed.
HandleEventTypeSelection(eventTypeId) ==
  /\ currentPeriod # NoPeriod /\ currentPeriod.isActive
  /\ ~showPlayerSelection
  /\ eventTypeId \in LoadedEventTypes
  /\ IF eventTypes[eventTypeId].requiresPlayer
     THEN /\ selectedEventType' = eventTypeId
          /\ showPlayerSelection' = TRUE
          /\ UNCHANGED <<matchEvents, nextEventId, playerStats, lastCreated, counted>>
     ELSE IF recordEventReturnsEarly(eventTypeId)
     THEN /\ selectedEventType' = eventTypeId
          /\ UNCHANGED <<showPlayerSelection, matchEvents, nextEventId,
                         playerStats, lastCreated, counted>>
     ELSE RecordEvent(eventTypeId, NoId)
  /\ UNCHANGED <<restVars, now, matchPeriods, matches, players, eventTypes, seasons,
                 match, currentPeriod, elapsedTime, isTimerRunning, timerDue,
                 actionLog>>

\* A button of the player panel, rendered while showPlayerSelection is set
\* and an event type is selected.
HandlePlayerSelection(playerId) ==
  /\ showPlayerSelection /\ selectedEventType # NoId
  /\ playerId \in LoadedPlayers
  /\ ~recordEventReturnsEarly(selectedEventType)
  /\ RecordEvent(selectedEventType, playerId)
  /\ UNCHANGED <<restVars, now, matchPeriods, matches, players, eventTypes, seasons,
                 match, currentPeriod, elapsedTime, isTimerRunning, timerDue,
                 actionLog>>

\* Variant of the Cancel button that closes the panel only.
CancelSelection_KeepsType ==
  /\ showPlayerSelection /\ selectedEventType # NoId
  /\ showPlayerSelection' = FALSE
  /\ UNCHANGED <<restVars, now, matchPeriods, dbVars, lastCreated, counted, match,
                 currentPeriod, elapsedTime, isTimerRunning, timerDue,
                 selectedEventType, actionLog>>

\* The Cancel button of the player panel.
CancelSelection ==
  /\ showPlayerSelection /\ selectedEventType # NoId
  /\ showPlayerSelection' = FALSE
  /\ selectedEventType' = NoId
  /\ UNCHANGED <<restVars, now, matchPeriods, dbVars, lastCreated, counted, match,
                 currentPeriod, elapsedTime, isTimerRunning, timerDue,
                 actionLog>>

\* The event types of the logger's team: Goal needs a player, Corner is a
\* team event, Yellow Card is switched off.
LoggerEventTypes ==
  <<EventTypeRow(1, NameGoal, TRUE, TRUE),
    EventTypeRow(2, NameCorner, FALSE, TRUE),
    EventTypeRow(3, NameYellowCard, TRUE, FALSE)>>

\* The logger right after it is mounted on a match that has not started.
InitLogger ==
  /\ now = 0
  /\ \E n \in PeriodNumbers : matches = [m \in {1} |-> NewMatch(m, n)]
  /\ matchPeriods = <<>>
  /\ eventTypes = LoggerEventTypes
  /\ InitStore
  /\ match = matches[1]
  /\ currentPeriod = NoPeriod
  /\ elapsedTime = 0
  /\ isTimerRunning = FALSE
  /\ timerDue = 0
  /\ selectedEventType = NoId
  /\ showPlayerSelection = FALSE
  /\ actionLog = <<>>

NextLogger ==
  \/ Advance
  \/ HandlePeriodAction
  \/ \E et \in DOMAIN eventTypes : HandleEventTypeSelection(et)
  \/ \E p \in PlayerIds : HandlePlayerSelection(p)
  \/ CancelSelection

SpecLogger == InitLogger /\ [][NextLogger]_vars

\* ---------------------------------------------------- default event types
\* The defaultEventTypes array of createDefaultEventTypes: the names and the
\* isActive flags; every entry has requiresPlayer: true.
DefaultNames ==
  <<NameGoal, NameAssist, NameTackle, NameSave, NameYellowCard, NameRedCard>>

DefaultActive == <<TRUE, TRUE, TRUE, TRUE, FALSE, FALSE>>

defaultEventTypes(teamId) ==
  [k \in 1..Len(DefaultNames) |->
     [teamId |-> teamId, name |-> DefaultNames[k], requiresPlayer |-> TRUE,
      isActive |-> DefaultActive[k]]]

\* eventTypeService.create: db.eventTypes.add under the next key.
eventTypeCreate(table, nextId, eventType) ==
  PutRow(table, nextId,
         [id |-> nextId, teamId |-> eventType.teamId, name |-> eventType.name,
          requiresPlayer |-> eventType.requiresPlayer,
          isActive |-> eventType.isActive])

\* for (const eventType of defaultEventTypes) await this.create(eventType)
RECURSIVE CreateEach(_, _, _)
CreateEach(table, nextId, list) ==
  IF list = <<>> THEN table
  ELSE CreateEach(eventTypeCreate(table, nextId, Head(list)), nextId + 1,
                  Tail(list))

createDefaultEventTypes(table, nextId, teamId) ==
  CreateEach(table, nextId, defaultEventTypes(teamId))

\* eventTypeService.getByTeam; its callers here use the length only, so the
\* sortBy('sortOrder') is left out and the result is the set of keys.
getByTeam(table, teamId) == {id \in DOMAIN table : table[id].teamId = teamId}

\* toArray(): the keys in ascending order.
RECURSIVE KeyOrder(_)
KeyOrder(keys) ==
  IF keys = {} THEN <<>>
  ELSE <<Min(keys)>> \o KeyOrder(keys \ {Min(keys)})

\* Variant of the loop without the existingTypes.length === 0 test.
RECURSIVE ForExistingTeams_NoTest(_, _, _)
ForExistingTeams_NoTest(table, nextId, teamIds) ==
  IF teamIds = <<>> THEN [table |-> table, nextId |-> nextId]
  ELSE IF Head(teamIds) # NoId
       THEN ForExistingTeams_NoTest(
              createDefaultEventTypes(table, nextId, Head(teamIds)),
              nextId + Len(DefaultNames), Tail(teamIds))
       ELSE ForExistingTeams_NoTest(table, nextId, Tail(teamIds))

\* The loop of createDefaultEventTypesForExistingTeams over the teams read:
\* the table and the key after it.
RECURSIVE ForExistingTeams(_, _, _)
ForExistingTeams(table, nextId, teamIds) ==
  IF teamIds = <<>> THEN [table |-> table, nextId |-> nextId]
  ELSE IF Head(teamIds) # NoId /\ getByTeam(table, Head(teamIds)) = {}
       THEN ForExistingTeams(
              createDefaultEventTypes(table, nextId, Head(teamIds)),
              nextId + Len(DefaultNames), Tail(teamIds))
       ELSE ForExistingTeams(table, nextId, Tail(teamIds))

createDefaultEventTypesForExistingTeams(teamTable, table, nextId) ==
  ForExistingTeams(table, nextId, KeyOrder(DOMAIN teamTable))

\* teamService.create
TeamCreateCall ==
  /\ nextTeamId <= MaxTeams
  /\ nextEventTypeId + Len(DefaultNames) - 1 <= MaxEventTypeRows
  /\ teams' = PutRow(teams, nextTeamId, TeamRow(nextTeamId))
  /\ nextTeamId' = nextTeamId + 1
  /\ eventTypes' = createDefaultEventTypes(eventTypes, nextEventTypeId,
                                           nextTeamId)
  /\ nextEventTypeId' = nextEventTypeId + Len(DefaultNames)
  /\ UNCHANGED <<now, matchPeriods, matches, players, seasons, matchEvents,
                 nextEventId, playerStats, lastCreated, counted, uiVars,
                 awards, awardsReturned, calls, users, recorded>>

\* teamService.delete
TeamDeleteCall(id) ==
  /\ id \in DOMAIN teams
  /\ teams' = DropRow(teams, id)
  /\ UNCHANGED <<now, matchPeriods, dbVars, lastCreated, counted, uiVars,
                 awards, awardsReturned, calls, sideVars>>

\* eventTypeService.create of an event type of the coach's own
EventTypeCreateCall(teamId, name) ==
  /\ nextEventTypeId <= MaxEventTypeRows
  /\ eventTypes' = eventTypeCreate(eventTypes, nextEventTypeId,
                     [teamId |-> teamId, name |-> name,
                      requiresPlayer |-> TRUE, isActive |-> TRUE])
  /\ nextEventTypeId' = nextEventTypeId + 1
  /\ UNCHANGED <<now, matchPeriods, matches, players, seasons, matchEvents,
                 nextEventId, playerStats, lastCreated, counted, uiVars,
                 teams, awards, awardsReturned, calls, users, nextTeamId,
                    recorded>>

\* eventTypeService.createDefaultEventTypesForExistingTeams, run alone
CreateDefaultsForExistingTeamsCall ==
  LET done == createDefaultEventTypesForExistingTeams(teams, eventTypes,
                                                      nextEventTypeId)
  IN /\ done.nextId - 1 <= MaxEventTypeRows
     /\ eventTypes' = done.table
     /\ nextEventTypeId' = done.nextId
     /\ UNCHANGED <<now, matchPeriods, matches, players, seasons, matchEvents,
                    nextEventId, playerStats, lastCreated, counted, uiVars,
                    teams, awards, awardsReturned, calls, users, nextTeamId,
                    recorded>>

\* A new installation: every table is empty.
InitFresh ==
  /\ now = 0
  /\ matches = <<>>
  /\ matchPeriods = <<>>
  /\ players = <<>>
  /\ eventTypes = <<>>
  /\ seasons = <<>>
  /\ matchEvents = <<>>
  /\ nextEventId = 1
  /\ playerStats = <<>>
  /\ lastCreated = NoCreated
  /\ counted = <<>>
  /\ teams = <<>>
  /\ awards = <<>>
  /\ awardsReturned = <<>>
  /\ calls = <<>>
  /\ users = <<>>
  /\ nextTeamId = 1
  /\ nextEventTypeId = 1
  /\ recorded = 0
  /\ InitNoLogger

NextDefaults ==
  \/ TeamCreateCall
  \/ \E id \in 1..MaxTeams : TeamDeleteCall(id)
  \/ \E t \in DOMAIN teams : EventTypeCreateCall(t, NameCorner)
  \/ \E id \in 1..MaxEventTypeRows : EventTypeDeleteCall(id)
  \/ CreateDefaultsForExistingTeamsCall

SpecDefaults == InitFresh /\ [][NextDefaults]_vars

\* ------------------------------------------- seedDemoData and loadData
\* seedDemoData past its `existingUsers.length > 0` return: the season, the
\* two users, the team through teamService.create, the players, the default
\* event types once more, the matches.  The roster and the fixture list are
\* cut to the sizes of the model, and the fixtures are the one not played.
SeedDemoData ==
  /\ \A id \in DOMAIN users : users[id].role # "coach"
  /\ nextTeamId <= MaxTeams
  /\ nextEventTypeId + 2 * Len(DefaultNames) - 1 <= MaxEventTypeRows
  /\ seasons' = seasonCreate(seasons, TRUE)
  /\ users' = users \o <<UserRow(Len(users) + 1, "coach"),
                         UserRow(Len(users) + 2, "parent")>>
  /\ teams' = PutRow(teams, nextTeamId, TeamRow(nextTeamId))
  /\ nextTeamId' = nextTeamId + 1
  /\ players' = [p \in PlayerIds |->
                   [PlayerRow(p) EXCEPT !.teamId = nextTeamId]]
  /\ eventTypes' =
       createDefaultEventTypes(
         createDefaultEventTypes(eventTypes, nextEventTypeId, nextTeamId),
         nextEventTypeId + Len(DefaultNames), nextTeamId)
  /\ nextEventTypeId' = nextEventTypeId + 2 * Len(DefaultNames)
  /\ matches' = [m \in ExistingMatchIds |->
                   [NewMatch(m, MaxPeriods) EXCEPT !.teamId = nextTeamId]]
  /\ UNCHANGED <<now, matchPeriods, matchEvents, nextEventId, playerStats,
                 lastCreated, counted, uiVars, awards, awardsReturned, calls,
                 recorded>>

\* A call of loadData is a record in `calls`: todo holds the teams of the
\* loop of createDefaultEventTypesForExistingTeams that are still to come,
\* k the index of the default that createDefaultEventTypes adds next.
NewLoad == [op |-> "loadData", pc |-> "teams", todo |-> <<>>, k |-> 0]

\* The mount effect of a logger for match m calls loadData.
BeginLoadData(m) ==
  /\ m \in DOMAIN matches
  /\ matches[m].teamId # NoId
  /\ Len(calls) < MaxCalls
  /\ calls' = Append(calls, NewLoad)
  /\ UNCHANGED <<now, matchPeriods, dbVars, lastCreated, counted, uiVars,
                 teams, awards, awardsReturned, sideVars>>

\* The loop goes on to the next team, or loadData to its two reads.
NextTeam(c) ==
  IF Len(c.todo) > 1
  THEN [c EXCEPT !.pc = "getByTeam", !.todo = Tail(c.todo), !.k = 0]
  ELSE [c EXCEPT !.pc = "lists", !.todo = <<>>, !.k = 0]

\* The next store operation of loadData call i and the code up to its next
\* await.
StepLoad(i) ==
  LET c == calls[i]
  IN /\ i \in 1..Len(calls)
     /\ c.op = "loadData"
     /\ CASE c.pc = "teams" ->
               /\ calls' = IF DOMAIN teams = {}
                           THEN [calls EXCEPT ![i].pc = "lists"]
                           ELSE [calls EXCEPT ![i].pc = "getByTeam",
                                   ![i].todo = KeyOrder(DOMAIN teams)]
               /\ UNCHANGED <<eventTypes, nextEventTypeId>>
          [] c.pc = "getByTeam" ->
               /\ calls' = IF getByTeam(eventTypes, Head(c.todo)) = {}
                           THEN [calls EXCEPT ![i].pc = "create", ![i].k = 1]
                           ELSE [calls EXCEPT ![i] = NextTeam(c)]
               /\ UNCHANGED <<eventTypes, nextEventTypeId>>
          [] c.pc = "create" ->
               /\ nextEventTypeId <= MaxEventTypeRows
               /\ eventTypes' = eventTypeCreate(eventTypes, nextEventTypeId,
                                  defaultEventTypes(Head(c.todo))[c.k])
               /\ nextEventTypeId' = nextEventTypeId + 1
               /\ calls' = IF c.k < Len(DefaultNames)
                           THEN [calls EXCEPT ![i].k = c.k + 1]
                           ELSE [calls EXCEPT ![i] = NextTeam(c)]
          [] c.pc = "lists" ->
               /\ calls' = RemoveAt(calls, i)
               /\ UNCHANGED <<eventTypes, nextEventTypeId>>
     /\ UNCHANGED <<now, matchPeriods, matches, players, seasons, matchEvents,
                    nextEventId, playerStats, lastCreated, counted, uiVars,
                    teams, awards, awardsReturned, users, nextTeamId, recorded>>

\* An installation made by the release before the default event types: the
\* seeded users, team, roster, season and fixture, and no event type.
InitLegacy ==
  /\ now = 0
  /\ matches = [m \in ExistingMatchIds |-> NewMatch(m, MaxPeriods)]
  /\ matchPeriods = <<>>
  /\ eventTypes = <<>>
  /\ InitStore
  /\ InitNoLogger

InitLoad == InitFresh \/ InitLegacy

NextLoad ==
  \/ SeedDemoData
  \/ \E m \in MatchIds : BeginLoadData(m)
  \/ \E i \in 1..MaxCalls : StepLoad(i)

SpecLoad == InitLoad /\ [][NextLoad]_vars

\* ------------------------------------------- the logger and the match list
\* handleCompleteMatch of the match list: the button is shown for a match
\* that is not completed; the final score is stored with isCompleted.
HandleCompleteMatch(matchId) ==
  /\ matchId \in DOMAIN matches
  /\ ~matches[matchId].isCompleted
  /\ matches' = matchUpdate(matches, matchId, [isCompleted |-> TRUE])
  /\ UNCHANGED <<restVars, now, matchPeriods, statVars, uiVars>>

\* The period button of the logger and the Complete button of the list.
NextMatchDay ==
  \/ Advance
  \/ HandlePeriodAction
  \/ \E m \in MatchIds : HandleCompleteMatch(m)

SpecMatchDay == InitLogger /\ [][NextMatchDay]_vars

\* ------------------------------------- a period action that is cut short
\* handlePeriodAction until its first await has resolved: the period table
\* is written, then the page goes away and with it the component's state.
StopAfterPeriodWrite ==
  LET nextAction == getNextAction(currentPeriod, match)
  IN /\ match.id # NoId
     /\ nextAction # NoAction
     /\ matchPeriods' = IF nextAction.action = "start"
                        THEN startPeriod(matchPeriods, match.id,
                                         nextAction.periodNumber, now)
                        ELSE endPeriod(matchPeriods, match.id,
                                       nextAction.periodNumber, now)
     /\ actionLog' = Append(actionLog, nextAction)
     /\ match' = NoMatch
     /\ currentPeriod' = NoPeriod
     /\ elapsedTime' = 0
     /\ isTimerRunning' = FALSE
     /\ timerDue' = 0
     /\ selectedEventType' = NoId
     /\ showPlayerSelection' = FALSE
     /\ UNCHANGED <<restVars, now, dbVars, lastCreated, counted>>

\* The logger is opened again: the host passes the stored match, the mount
\* effect runs loadCurrentPeriod from the initial state of the component.
MountLogger(m) ==
  LET loaded == loadCurrentPeriod(matchPeriods, matches[m], now, 0)
  IN /\ match = NoMatch
     /\ m \in DOMAIN matches
     /\ match' = matches[m]
     /\ currentPeriod' = loaded.currentPeriod
     /\ isTimerRunning' = loaded.isTimerRunning
     /\ elapsedTime' = loaded.elapsedTime
     /\ timerDue' = IF loaded.isTimerRunning THEN now + MsPerSecond ELSE 0
     /\ selectedEventType' = NoId
     /\ showPlayerSelection' = FALSE
     /\ UNCHANGED <<restVars, now, matchPeriods, dbVars, lastCreated, counted,
                    actionLog>>

NextReload ==
  \/ Advance
  \/ HandlePeriodAction
  \/ StopAfterPeriodWrite
  \/ \E m \in MatchIds : MountLogger(m)

SpecReload == InitLogger /\ [][NextReload]_vars

\* ------------------------------------------ taps that overlap at awaits
\* A tap on the period button runs handlePeriodAction up to its first
\* await; the call is a record in `calls` holding what its closure has
\* read from the render: nextAction, the match prop and elapsedTime.
TapPeriodButton ==
  LET nextAction == getNextAction(currentPeriod, match)
  IN /\ match.id # NoId
     /\ nextAction # NoAction
     /\ Len(calls) < MaxCalls
     /\ calls' = Append(calls,
                   [op |-> "period", pc |-> "period",
                    nextAction |-> nextAction, match |-> match,
                    elapsedTime |-> elapsedTime])
     /\ UNCHANGED <<now, matchPeriods, dbVars, lastCreated, counted, uiVars,
                    teams, awards, awardsReturned, sideVars>>

\* The next awaited operation of handlePeriodAction call i: the period
\* service, matchService.update, then loadCurrentPeriod and onMatchUpdate.
StepPeriodAction(i) ==
  LET c == calls[i]
  IN /\ i \in 1..Len(calls)
     /\ c.op = "period"
     /\ CASE c.pc = "period" ->
               /\ c.nextAction.action = "start"
                    => Len(matchPeriods) < MaxPeriodRows
               /\ matchPeriods' =
                    IF c.nextAction.action = "start"
                    THEN startPeriod(matchPeriods, c.match.id,
                                     c.nextAction.periodNumber, now)
                    ELSE endPeriod(matchPeriods, c.match.id,
                                   c.nextAction.periodNumber, now)
               /\ actionLog' = Append(actionLog, c.nextAction)
               /\ calls' = [calls EXCEPT ![i].pc = "match"]
               /\ UNCHANGED <<matches, match, currentPeriod, elapsedTime,
                              isTimerRunning, timerDue>>
          [] c.pc = "match" ->
               /\ matches' = matchUpdate(matches, c.match.id,
                               MatchChanges(c.nextAction, c.match,
                                            c.elapsedTime))
               /\ calls' = [calls EXCEPT ![i].pc = "load"]
               /\ UNCHANGED <<matchPeriods, actionLog, match, currentPeriod,
                              elapsedTime, isTimerRunning, timerDue>>
          [] c.pc = "load" ->
               LET loaded == loadCurrentPeriod(matchPeriods, c.match, now,
                                               elapsedTime)
               IN /\ currentPeriod' = loaded.currentPeriod
                  /\ isTimerRunning' = loaded.isTimerRunning
                  /\ elapsedTime' = loaded.elapsedTime
                  /\ timerDue' = IF loaded.isTimerRunning
                                 THEN now + MsPerSecond ELSE 0
                  /\ match' = onMatchUpdate(matches, match)
                  /\ calls' = RemoveAt(calls, i)
                  /\ UNCHANGED <<matchPeriods, matches, actionLog>>
     /\ UNCHANGED <<now, players, eventTypes, seasons, matchEvents,
                    nextEventId, playerStats, lastCreated, counted,
                    selectedEventType, showPlayerSelection, teams, awards,
                    awardsReturned, sideVars>>

NextPeriodTaps ==
  \/ Advance
  \/ TapPeriodButton
  \/ \E i \in 1..MaxCalls : StepPeriodAction(i)

SpecPeriodTaps == InitLogger /\ [][NextPeriodTaps]_vars

\* History: the calls in flight stem from a selection before the latest.
Earlier(list) == [i \in 1..Len(list) |-> [list[i] EXCEPT !.latest = FALSE]]

\* A tap on a button of the event-type grid: handleEventTypeSelection; for
\* a team event recordEvent runs up to its await of matchEventService.create.
TapEventType(eventTypeId) ==
  /\ currentPeriod # NoPeriod /\ currentPeriod.isActive
  /\ ~showPlayerSelection
  /\ eventTypeId \in LoadedEventTypes
  /\ selectedEventType' = eventTypeId
  /\ recorded' = 0
  /\ IF eventTypes[eventTypeId].requiresPlayer
     THEN /\ showPlayerSelection' = TRUE
          /\ calls' = Earlier(calls)
     ELSE /\ UNCHANGED showPlayerSelection
          /\ IF recordEventReturnsEarly(eventTypeId)
             THEN calls' = Earlier(calls)
             ELSE /\ Len(calls) < MaxCalls
                  /\ calls' = Append(Earlier(calls),
                       [op |-> "record", pc |-> "create", latest |-> TRUE,
                        event |-> NewEvent(match.id, eventTypeId, NoId,
                                           currentPeriod.periodNumber,
                                           elapsedTime)])
  /\ UNCHANGED <<now, matchPeriods, dbVars, lastCreated, counted, match,
                 currentPeriod, elapsedTime, isTimerRunning, timerDue,
                 actionLog, teams, awards, awardsReturned, users, nextTeamId,
                 nextEventTypeId>>

\* A tap on a button of the player panel: handlePlayerSelection, recordEvent
\* up to its await.
TapPlayer(playerId) ==
  /\ showPlayerSelection /\ selectedEventType # NoId
  /\ playerId \in LoadedPlayers
  /\ ~recordEventReturnsEarly(selectedEventType)
  /\ Len(calls) < MaxCalls
  /\ calls' = Append(calls,
       [op |-> "record", pc |-> "create", latest |-> TRUE,
        event |-> NewEvent(match.id, selectedEventType, playerId,
                           currentPeriod.periodNumber, elapsedTime)])
  /\ UNCHANGED <<now, matchPeriods, dbVars, lastCreated, counted, uiVars,
                 teams, awards, awardsReturned, sideVars>>

\* recordEvent call i after its await: the event is stored, the selection
\* state is reset.
StepRecord(i) ==
  /\ i \in 1..Len(calls)
  /\ calls[i].op = "record"
  /\ CreateEvent(calls[i].event)
  /\ selectedEventType' = NoId
  /\ showPlayerSelection' = FALSE
  /\ calls' = RemoveAt(calls, i)
  /\ recorded' = IF calls[i].latest THEN recorded + 1 ELSE recorded
  /\ UNCHANGED <<now, matchPeriods, matches, players, eventTypes, seasons,
                 match, currentPeriod, elapsedTime, isTimerRunning, timerDue,
                 actionLog, teams, awards, awardsReturned, users, nextTeamId,
                 nextEventTypeId>>

NextEventTaps ==
  \/ Advance
  \/ HandlePeriodAction
  \/ \E et \in DOMAIN eventTypes : TapEventType(et)
  \/ \E p \in PlayerIds : TapPlayer(p)
  \/ \E i \in 1..MaxCalls : StepRecord(i)
  \/ CancelSelection

SpecEventTaps == InitLogger /\ [][NextEventTaps]_vars

\* ------------------------------------ deleting a match that has periods
NextMatchDelete ==
  \/ Advance
  \/ \E m \in MatchIds, n \in PeriodNumbers : StartPeriodCall(m, n)
  \/ \E m \in MatchIds, n \in PeriodNumbers : EndPeriodCall(m, n)
  \/ \E m \in MatchIds : MatchDeleteCall(m)

SpecMatchDelete == InitPeriods /\ [][NextMatchDelete]_vars

\* ------------------------------------------------------------- claims
\* C1: at most one MatchPeriod row per match has isActive = true, in every
\* state reached by startPeriod/endPeriod calls (checked for arbitrary call
\* sequences, which include those that follow the period state machine).
C1_AtMostOneActive ==
  \A m \in MatchIds : Cardinality(ActivePeriods(matchPeriods, m)) <= 1

\* A start has displaced an earlier period of the same match.
C1_Witness ==
  \E m \in MatchIds :
    /\ Cardinality(ActivePeriods(matchPeriods, m)) = 1
    /\ Cardinality(PeriodsOf(matchPeriods, m)) >= 2

\* C2: startPeriod(matchId, n) leaves every previously active period of the
\* match inactive with its endTime set, adds exactly one row, which has
\* periodNumber n, isActive, not isCompleted and elapsedTime 0, and leaves
\* the rows of every other match unchanged.
StartPeriodPost(m, n) ==
  /\ Len(matchPeriods') = Len(matchPeriods) + 1
  /\ \A i \in 1..Len(matchPeriods) :
       /\ matchPeriods[i].matchId = m /\ matchPeriods[i].isActive
            => /\ ~matchPeriods'[i].isActive
               /\ matchPeriods'[i].endTime = now
       /\ matchPeriods[i].matchId # m => matchPeriods'[i] = matchPeriods[i]
  /\ LET row == matchPeriods'[Len(matchPeriods')]
     IN /\ row.matchId = m /\ row.periodNumber = n
        /\ row.isActive /\ ~row.isCompleted /\ row.elapsedTime = 0

C2_StartPeriod ==
  [][\A m \in MatchIds, n \in PeriodNumbers :
       StartPeriodCall(m, n) => StartPeriodPost(m, n)]_vars

\* A start that ended a still-active period while another match has rows.
C2_Witness ==
  \E i, j, k \in 1..Len(matchPeriods) :
    /\ i < j
    /\ matchPeriods[i].matchId = matchPeriods[j].matchId
    /\ ~matchPeriods[i].isActive /\ ~matchPeriods[i].isCompleted
    /\ matchPeriods[i].endTime = matchPeriods[j].startTime
    /\ matchPeriods[j].isActive
    /\ matchPeriods[k].matchId # matchPeriods[i].matchId

\* C3: endPeriod(matchId, n), when the match has an active period n with a
\* start time, sets that row to isActive = false, isCompleted = true,
\* endTime = now and elapsedTime = the whole seconds between startTime and
\* now, and changes no other row.
EndPeriodPost(m, n) ==
  LET cand == {i \in 1..Len(matchPeriods) :
                 /\ matchPeriods[i].matchId = m
                 /\ matchPeriods[i].periodNumber = n
                 /\ matchPeriods[i].isActive
                 /\ matchPeriods[i].startTime # NoTime}
  IN cand # {} =>
       /\ Len(matchPeriods') = Len(matchPeriods)
       /\ \E i \in cand :
            /\ ~matchPeriods'[i].isActive
            /\ matchPeriods'[i].isCompleted
            /\ matchPeriods'[i].endTime = now
            /\ matchPeriods'[i].elapsedTime * MsPerSecond
                 <= now - matchPeriods[i].startTime
            /\ now - matchPeriods[i].startTime
                 < (matchPeriods'[i].elapsedTime + 1) * MsPerSecond
            /\ matchPeriods'[i].startTime = matchPeriods[i].startTime
            /\ matchPeriods'[i].periodNumber = n
            /\ matchPeriods'[i].matchId = m
            /\ \A j \in 1..Len(matchPeriods) :
                 j # i => matchPeriods'[j] = matchPeriods[j]

C3_EndPeriod ==
  [][\A m \in MatchIds, n \in PeriodNumbers :
       EndPeriodCall(m, n) => EndPeriodPost(m, n)]_vars

\* A period ended one and a half seconds after its start: one whole second.
C3_Witness ==
  \E i \in 1..Len(matchPeriods) :
    /\ matchPeriods[i].isCompleted
    /\ matchPeriods[i].endTime - matchPeriods[i].startTime = 3 * StepMs
    /\ matchPeriods[i].elapsedTime = 1
    /\ Len(matchPeriods) >= 2

\* The counter each name of the model stands for, written out by hand from
\* the rule "first of goal, assist, yellow, red contained in the name,
\* compared case-insensitively".
ExpectedStat(name) ==
  CASE name = NameGoal -> "goals"
    [] name = NameGoalAssist -> "goals"
    [] name = NameAssist -> "assists"
    [] name = NameYellowCard -> "yellowCards"
    [] name = NameYellowRed -> "yellowCards"
    [] name = NameRedCard -> "redCards"
    [] OTHER -> "none"

\* C9: with the current season and the event type the same at both ends,
\* creating an event of a 'goal' type for player P (references resolving)
\* raises PlayerStats(P, season).goals by exactly 1 and deleting that event
\* lowers it by exactly 1: the four counters are back at their values
\* before the creation (an absent row counts as all zeros).
C9_GoalRoundTrip ==
  lastCreated.stage # "none" /\ ExpectedStat(lastCreated.name) = "goals" =>
    Counters(playerStats, lastCreated.playerId, lastCreated.seasonId) =
      IF lastCreated.stage = "created"
      THEN [lastCreated.before EXCEPT !.goals = @ + 1]
      ELSE lastCreated.before

\* A goal was created on top of an earlier goal and then deleted.
C9_Witness ==
  /\ lastCreated.stage = "deleted"
  /\ ExpectedStat(lastCreated.name) = "goals"
  /\ lastCreated.before.goals = 1
  /\ lastCreated.id \notin DOMAIN matchEvents

\* C10: for an event with a player whose references resolve and whose type
\* name contains a keyword, the aggregator changes exactly the counter of
\* the first keyword in the order goals, assists, yellowCards, redCards of
\* the (player, current season) row, by +1 on add and -1 on remove, leaves
\* the other three as they were (0 in a new row) and touches no other row;
\* with no keyword in the name the table is unchanged.
AggregatePost(event, multiplier) ==
  LET seasonId == Min({i \in 1..Len(seasons) : seasons[i].isActive})
      stat == ExpectedStat(eventTypes[event.eventTypeId].name)
      mine == {i \in 1..Len(playerStats) :
                 /\ playerStats[i].playerId = event.playerId
                 /\ playerStats[i].seasonId = seasonId}
  IN IF stat = "none" THEN playerStats' = playerStats
     ELSE /\ Counters(playerStats', event.playerId, seasonId) =
               [Counters(playerStats, event.playerId, seasonId)
                  EXCEPT ![stat] = @ + multiplier]
          /\ Len(playerStats') =
               Len(playerStats) + (IF mine = {} THEN 1 ELSE 0)
          /\ \A i \in 1..Len(playerStats) \ mine :
               playerStats'[i] = playerStats[i]
          /\ \A i \in mine :
               /\ playerStats'[i].playerId = event.playerId
               /\ playerStats'[i].seasonId = seasonId

C10_Aggregator ==
  [][/\ \A m \in MatchIds, et \in EventTypeIds, p \in PlayerIds :
          /\ CreateEventCall(m, et, p)
          /\ Resolves(NewEvent(m, et, p, 1, 0))
          => AggregatePost(NewEvent(m, et, p, 1, 0), 1)
     /\ \A id \in DOMAIN matchEvents :
          /\ DeleteEventCall(id)
          /\ Resolves(matchEvents[id])
          => AggregatePost(matchEvents[id], 0 - 1)]_vars

\* An event of a type named "GOAL assist" has been counted as a goal.
C10_Witness ==
  /\ \E id \in DOMAIN matchEvents :
       /\ matchEvents[id].eventTypeId \in DOMAIN eventTypes
       /\ eventTypes[matchEvents[id].eventTypeId].name = NameGoalAssist
       /\ matchEvents[id].playerId # NoId
       /\ Counters(playerStats, matchEvents[id].playerId, 1).goals = 1
       /\ Counters(playerStats, matchEvents[id].playerId, 1).assists = 0
  /\ Len(playerStats) >= 1

\* The most recently created period row of the logger's match.
LatestPeriod ==
  LET mine == {i \in 1..Len(matchPeriods) :
                 matchPeriods[i].matchId = match.id}
  IN IF mine = {} THEN NoPeriod
     ELSE matchPeriods[CHOOSE i \in mine : \A j \in mine : j <= i]

\* C4: the action the logger offers is decided by the most recently
\* created period of the match and the configured period count alone (none:
\* start 1; active: end n; completed and n < count: start n+1; completed
\* and n = count: nothing), and getCurrentPeriod returns that period.
C4_NextAction ==
  LET count == matches[match.id].periods
      n == LatestPeriod.periodNumber
      offered == IF LatestPeriod = NoPeriod
                 THEN [action |-> "start", periodNumber |-> 1]
                 ELSE IF LatestPeriod.isActive
                 THEN [action |-> "end", periodNumber |-> n]
                 ELSE IF LatestPeriod.isCompleted /\ n < count
                 THEN [action |-> "start", periodNumber |-> n + 1]
                 ELSE IF LatestPeriod.isCompleted /\ n = count
                 THEN NoAction
                 ELSE [action |-> "undefined", periodNumber |-> n]
  IN /\ getNextAction(currentPeriod, match) = offered
     /\ getCurrentPeriod(matchPeriods, match.id) = LatestPeriod

\* The second period runs while the row of the first is still stored.
C4_Witness ==
  /\ Len(matchPeriods) = 2
  /\ LatestPeriod.periodNumber = 2
  /\ LatestPeriod.isActive
  /\ getNextAction(currentPeriod, match).action = "end"

\* C5: from a match without periods and N configured periods, the actions
\* performed through the logger's button are start 1, end 1, ..., start N,
\* end N in this order and then none is offered; after end n with n < N the
\* offer is start n+1, never start 1.
ExpectedAction(k) ==
  [action |-> IF k % 2 = 1 THEN "start" ELSE "end",
   periodNumber |-> (k + 1) \div 2]

C5_LinearFlow ==
  LET N == matches[match.id].periods
  IN /\ Len(actionLog) <= 2 * N
     /\ \A k \in 1..Len(actionLog) : actionLog[k] = ExpectedAction(k)
     /\ getNextAction(currentPeriod, match) =
          IF Len(actionLog) < 2 * N THEN ExpectedAction(Len(actionLog) + 1)
          ELSE NoAction

\* A match of at least two periods has been played to its end.
C5_Witness ==
  /\ matches[match.id].periods >= 2
  /\ Len(actionLog) = 2 * matches[match.id].periods
  /\ getNextAction(currentPeriod, match) = NoAction

RECURSIVE SumElapsed(_, _)
SumElapsed(rows, matchId) ==
  IF rows = <<>> THEN 0
  ELSE (IF Head(rows).matchId = matchId /\ Head(rows).isCompleted
        THEN Head(rows).elapsedTime ELSE 0) + SumElapsed(Tail(rows), matchId)

\* Whole seconds the active period of the logger's match has been running.
LiveDelta ==
  LET active == {i \in 1..Len(matchPeriods) :
                   matchPeriods[i].matchId = match.id
                   /\ matchPeriods[i].isActive}
  IN IF active = {} THEN 0
     ELSE (now - matchPeriods[CHOOSE i \in active : TRUE].startTime)
            \div MsPerSecond

\* C6: the displayed elapsed time is the sum of the elapsedTime of the
\* completed periods plus the seconds the active period has been running,
\* and a period action never resets it to zero nor lowers it.
C6_TimerContinuity ==
  [][/\ elapsedTime' = SumElapsed(matchPeriods', match.id) + LiveDelta'
     /\ actionLog' # actionLog =>
          /\ elapsedTime' >= elapsedTime
          /\ elapsedTime > 0 => elapsedTime' > 0]_vars

\* C7: once periods 1 and 2 have both been ended through the logger, the
\* total the end action stored in match.totalElapsedTime, and the total on
\* display, is elapsedTime(period 1) + elapsedTime(period 2).
C7_TotalIsSum ==
  Len(actionLog) = 4 =>
    /\ matches[match.id].totalElapsedTime = SumElapsed(matchPeriods, match.id)
    /\ elapsedTime = SumElapsed(matchPeriods, match.id)

\* C11: there is at most one PlayerStats row for each (playerId, seasonId)
\* pair, in every state reached by create and delete calls whose steps
\* overlap at their awaits.
C11_OneRowPerPair ==
  \A i, j \in 1..Len(playerStats) :
    /\ playerStats[i].playerId = playerStats[j].playerId
    /\ playerStats[i].seasonId = playerStats[j].seasonId
    => i = j

\* C8: a MatchEvent row is created only while the match has a period with
\* isActive = true.
C8_RecordNeedsActivePeriod ==
  [][nextEventId' # nextEventId =>
       \E i \in 1..Len(matchPeriods) :
         matchPeriods[i].matchId = match.id /\ matchPeriods[i].isActive]_vars

\* The stored statistics rows that count for a team and season: those of
\* the pair whose player and team exist.
Eligible(seasonId, teamId) ==
  {i \in 1..Len(playerStats) :
     /\ playerStats[i].seasonId = seasonId /\ playerStats[i].teamId = teamId
     /\ playerStats[i].playerId \in DOMAIN players
     /\ teamId \in DOMAIN teams}

MaxOf(rowIds, field) ==
  CHOOSE v \in {playerStats[i][field] : i \in rowIds} :
    \A i \in rowIds : playerStats[i][field] <= v

\* The first holder of the most goals: the stored order decides a tie.
TopHolder(rowIds) ==
  CHOOSE i \in rowIds :
    \A j \in rowIds :
      \/ playerStats[j].goals < playerStats[i].goals
      \/ playerStats[j].goals = playerStats[i].goals /\ i <= j

\* The first holder of the most assists in the list ordered by goals.
AssistHolder(rowIds) ==
  CHOOSE i \in rowIds :
    \A j \in rowIds :
      \/ playerStats[j].assists < playerStats[i].assists
      \/ /\ playerStats[j].assists = playerStats[i].assists
         /\ \/ playerStats[j].goals < playerStats[i].goals
            \/ playerStats[j].goals = playerStats[i].goals /\ i <= j

\* The keys of the rows the step has added to db.awards, by award type.
AddedOfType(awardType) ==
  {k \in (Len(awards) + 1)..Len(awards') : awards'[k].awardType = awardType}

\* C12: generateSeasonAwards(seasonId, teamId) adds a 'top_scorer' award
\* exactly when the team/season has statistics whose highest goals count is
\* above 0; there is one such award, its value is that count and its player
\* is the first holder of it (of tied players the one stored first).
C12_TopScorer ==
  [][\A seasonId \in SeasonIds, teamId \in TeamIds :
       GenerateSeasonAwardsCall(seasonId, teamId) =>
         LET rowIds == Eligible(seasonId, teamId)
         IN IF rowIds # {} /\ MaxOf(rowIds, "goals") > 0
            THEN \E k \in AddedOfType("top_scorer") :
                   /\ AddedOfType("top_scorer") = {k}
                   /\ awards'[k].value = MaxOf(rowIds, "goals")
                   /\ awards'[k].playerId =
                        playerStats[TopHolder(rowIds)].playerId
                   /\ awards'[k].seasonId = seasonId
                   /\ awards'[k].teamId = teamId
            ELSE AddedOfType("top_scorer") = {}]_vars

\* Two players tie on goals and the one stored first holds the award.
C12_Witness ==
  \E k \in 1..Len(awards), i, j \in 1..Len(playerStats) :
    /\ awards[k].awardType = "top_scorer"
    /\ i < j
    /\ {i, j} \subseteq Eligible(awards[k].seasonId, awards[k].teamId)
    /\ playerStats[i].goals = awards[k].value
    /\ playerStats[j].goals = awards[k].value
    /\ playerStats[i].playerId = awards[k].playerId
    /\ playerStats[j].playerId # awards[k].playerId

\* C13: generateSeasonAwards adds a 'most_assists' award, for the first
\* holder of the most assists and with that count as value, exactly when
\* the count is above 0 and that player is not the player holding the most
\* goals; when it is, no most_assists award is added, whatever assists
\* other players have.
C13_MostAssists ==
  [][\A seasonId \in SeasonIds, teamId \in TeamIds :
       GenerateSeasonAwardsCall(seasonId, teamId) =>
         LET rowIds == Eligible(seasonId, teamId)
         IN IF /\ rowIds # {}
               /\ MaxOf(rowIds, "assists") > 0
               /\ playerStats[AssistHolder(rowIds)].playerId
                    # playerStats[TopHolder(rowIds)].playerId
            THEN \E k \in AddedOfType("most_assists") :
                   /\ AddedOfType("most_assists") = {k}
                   /\ awards'[k].value = MaxOf(rowIds, "assists")
                   /\ awards'[k].playerId =
                        playerStats[AssistHolder(rowIds)].playerId
                   /\ awards'[k].seasonId = seasonId
                   /\ awards'[k].teamId = teamId
            ELSE AddedOfType("most_assists") = {}]_vars

\* The top scorer also has the most assists, another player has assists
\* too, and the run has added the top_scorer award alone.
C13_Witness ==
  \E k \in 1..Len(awards), i, j \in 1..Len(playerStats) :
    /\ awards[k].awardType = "top_scorer"
    /\ {i, j} \subseteq Eligible(awards[k].seasonId, awards[k].teamId)
    /\ playerStats[i].playerId = awards[k].playerId
    /\ playerStats[j].playerId # awards[k].playerId
    /\ playerStats[j].assists > 0
    /\ playerStats[i].assists >= playerStats[j].assists
    /\ \A n \in 1..Len(awards) : awards[n].awardType # "most_assists"

\* What one run produces for a team and season, written from the rule: the
\* top scorer if anyone has scored, then the player with the most assists if
\* anyone has assisted and that player is not the one with the most goals.
ExpectedAwards(seasonId, teamId) ==
  LET rowIds == Eligible(seasonId, teamId)
      top == playerStats[TopHolder(rowIds)]
      most == playerStats[AssistHolder(rowIds)]
  IN IF rowIds = {} THEN <<>>
     ELSE (IF top.goals > 0
           THEN <<NewAward(seasonId, teamId, top.playerId, "top_scorer",
                           top.goals)>>
           ELSE <<>>)
          \o (IF most.assists > 0 /\ most.playerId # top.playerId
              THEN <<NewAward(seasonId, teamId, most.playerId,
                              "most_assists", most.assists)>>
              ELSE <<>>)

RECURSIVE Repeat(_, _)
Repeat(seq, k) == IF k = 0 THEN <<>> ELSE seq \o Repeat(seq, k - 1)

\* The stored awards of a team and season, in key order, without their keys.
AwardsOf(seasonId, teamId) ==
  LET Mine(award) == award.seasonId = seasonId /\ award.teamId = teamId
      mine == SelectSeq(awards, Mine)
  IN [k \in 1..Len(mine) |->
        NewAward(mine[k].seasonId, mine[k].teamId, mine[k].playerId,
                 mine[k].awardType, mine[k].value)]

\* C14: generateSeasonAwards only appends to db.awards: every earlier row
\* stays as it was, the array it returns is exactly the rows the run added,
\* none are added for a team/season without statistics, and with the
\* statistics unchanged the awards stored for a team and season are k copies
\* of what one run produces, k the number of runs.
C14_AppendOnly ==
  /\ [][\A seasonId \in SeasonIds, teamId \in TeamIds :
          GenerateSeasonAwardsCall(seasonId, teamId) =>
            /\ Len(awards') >= Len(awards)
            /\ SubSeq(awards', 1, Len(awards)) = awards
            /\ awardsReturned' = SubSeq(awards', Len(awards) + 1, Len(awards'))
            /\ \A k \in 1..Len(awardsReturned') :
                 /\ awardsReturned'[k].seasonId = seasonId
                 /\ awardsReturned'[k].teamId = teamId
            /\ Len(awardsReturned') = Len(ExpectedAwards(seasonId, teamId))
            /\ Eligible(seasonId, teamId) = {} => awards' = awards]_vars
  /\ [](\A seasonId \in SeasonIds, teamId \in TeamIds :
          \E k \in 0..MaxAwardRows :
            AwardsOf(seasonId, teamId) =
              Repeat(ExpectedAwards(seasonId, teamId), k))

\* Two runs on the same statistics have left two copies of both awards.
C14_Witness ==
  \E seasonId \in SeasonIds, teamId \in TeamIds :
    /\ Len(ExpectedAwards(seasonId, teamId)) = 2
    /\ AwardsOf(seasonId, teamId) =
         Repeat(ExpectedAwards(seasonId, teamId), 2)
    /\ awardsReturned = SubSeq(awards, Len(awards) - 1, Len(awards))
    /\ Len(awards) = 4

\* The step has stored exactly one event, of this type and player.
RecordedOne(eventTypeId, playerId) ==
  /\ nextEventId' = nextEventId + 1
  /\ DOMAIN matchEvents' = DOMAIN matchEvents \cup {nextEventId}
  /\ \A id \in DOMAIN matchEvents : matchEvents'[id] = matchEvents[id]
  /\ matchEvents'[nextEventId].eventTypeId = eventTypeId
  /\ matchEvents'[nextEventId].playerId = playerId
  /\ matchEvents'[nextEventId].matchId = match.id

\* C15: selecting an event type that needs no player stores exactly one
\* event without a player at once and leaves the player panel closed;
\* selecting one that needs a player stores nothing, opens the panel and
\* remembers the type; choosing a player then stores exactly one event of
\* the remembered type for that player; Cancel stores nothing and clears
\* both the remembered type and the panel flag; an event of a type that
\* needs a player is stored by no other step than the choice of a player.
C15_TwoStepSelection ==
  [][/\ \A et \in DOMAIN eventTypes :
          HandleEventTypeSelection(et) =>
            IF eventTypes[et].requiresPlayer
            THEN /\ matchEvents' = matchEvents /\ nextEventId' = nextEventId
                 /\ showPlayerSelection' /\ selectedEventType' = et
            ELSE /\ RecordedOne(et, NoId)
                 /\ ~showPlayerSelection'
     /\ \A p \in PlayerIds :
          HandlePlayerSelection(p) =>
            /\ RecordedOne(selectedEventType, p)
            /\ ~showPlayerSelection' /\ selectedEventType' = NoId
     /\ CancelSelection =>
          /\ matchEvents' = matchEvents /\ nextEventId' = nextEventId
          /\ ~showPlayerSelection' /\ selectedEventType' = NoId
     /\ \A id \in DOMAIN matchEvents' \ DOMAIN matchEvents :
          eventTypes[matchEvents'[id].eventTypeId].requiresPlayer =>
            /\ showPlayerSelection
            /\ matchEvents'[id].playerId \in PlayerIds
            /\ matchEvents'[id].eventTypeId = selectedEventType]_vars

\* A team event and a player's event have both been stored and the panel
\* is closed again.
C15_Witness ==
  /\ \E i, j \in DOMAIN matchEvents :
       /\ matchEvents[i].playerId = NoId
       /\ ~eventTypes[matchEvents[i].eventTypeId].requiresPlayer
       /\ matchEvents[j].playerId # NoId
       /\ eventTypes[matchEvents[j].eventTypeId].requiresPlayer
  /\ ~showPlayerSelection
  /\ selectedEventType = NoId

\* C16: a MatchEvent row is stored with syncStatus 'pending' whatever
\* syncStatus the caller of create passed; a stored row's syncStatus changes
\* in an updateSyncStatus step only, and no step changes another field of a
\* stored row.
C16_SyncStatus ==
  [][/\ nextEventId' # nextEventId => nextEventId \in DOMAIN matchEvents'
     /\ \A id \in DOMAIN matchEvents' \ DOMAIN matchEvents :
          matchEvents'[id].syncStatus = "pending"
     /\ \A id \in DOMAIN matchEvents \cap DOMAIN matchEvents' :
          /\ \A f \in DOMAIN matchEvents[id] \ {"syncStatus"} :
               matchEvents'[id][f] = matchEvents[id][f]
          /\ DOMAIN matchEvents'[id] = DOMAIN matchEvents[id]
          /\ matchEvents'[id].syncStatus # matchEvents[id].syncStatus =>
               UpdateSyncStatusCall(id, matchEvents'[id].syncStatus)]_vars

\* One event has been marked synced and a later one is still pending.
C16_Witness ==
  \E i, j \in DOMAIN matchEvents :
    /\ i < j
    /\ matchEvents[i].syncStatus = "synced"
    /\ matchEvents[j].syncStatus = "pending"

\* The events of match m whose creation added to counter f of player p in
\* season s.
CountedIn(m, p, s, f) ==
  {id \in DOMAIN matchEvents \cap DOMAIN counted :
     /\ matchEvents[id].matchId = m
     /\ counted[id] = [playerId |-> p, seasonId |-> s, stat |-> f]}

\* C17: after matchService.delete(m) no MatchEvent row of m is stored, the
\* match row is gone, and every counter of every (player, season) is lower
\* by the number of events of m that had added to it.
C17_MatchDeleteCascade ==
  [][\A m \in MatchIds :
       MatchDeleteCall(m) =>
         /\ m \notin DOMAIN matches'
         /\ \A id \in DOMAIN matchEvents' : matchEvents'[id].matchId # m
         /\ \A p \in PlayerIds, se \in SeasonIds, f \in StatFields :
              Counters(playerStats', p, se)[f] =
                Counters(playerStats, p, se)[f]
                  - Cardinality(CountedIn(m, p, se, f))]_vars

\* The match has an active period with this number.
HasActivePeriod(m, n) ==
  \E i \in 1..Len(matchPeriods) :
    /\ matchPeriods[i].matchId = m
    /\ matchPeriods[i].periodNumber = n
    /\ matchPeriods[i].isActive

\* C18: endPeriod(matchId, n) for a match without an active period n (no
\* match of that id, no period n, or period n already ended) leaves
\* db.matchPeriods as it is: no row is added and none is changed.
C18_EndPeriodNoOp ==
  [][\A m \in MatchIds, n \in PeriodNumbers :
       EndPeriodCall(m, n) /\ ~HasActivePeriod(m, n) =>
         matchPeriods' = matchPeriods]_vars

\* Time has passed since a period was ended and another period of another
\* number is active: ending the ended one again, ending a number the match
\* has no period of, and ending a period of a match that does not exist
\* all leave the table alone.
C18_Witness ==
  \E i, j \in 1..Len(matchPeriods) :
    /\ matchPeriods[i].isCompleted /\ matchPeriods[i].endTime < now
    /\ ~HasActivePeriod(matchPeriods[i].matchId, matchPeriods[i].periodNumber)
    /\ endPeriod(matchPeriods, matchPeriods[i].matchId,
                 matchPeriods[i].periodNumber, now) = matchPeriods
    /\ matchPeriods[j].isActive
    /\ \A k \in 1..Len(matchPeriods) : matchPeriods[k].matchId \in DOMAIN matches
    /\ \A n \in PeriodNumbers :
         endPeriod(matchPeriods, MaxMatches, n, now) = matchPeriods

\* C19: startPeriod(matchId, n) with no match of that id in db.matches
\* leaves db.matchPeriods as it is.
C19_StartPeriodNoMatch ==
  [][\A m \in MatchIds, n \in PeriodNumbers :
       StartPeriodCall(m, n) /\ m \notin DOMAIN matches =>
         matchPeriods' = matchPeriods]_vars

\* The last configured period of the logger's match has been ended.
LastPeriodEnded ==
  \E i \in 1..Len(matchPeriods) :
    /\ matchPeriods[i].matchId = match.id
    /\ matchPeriods[i].isCompleted
    /\ matchPeriods[i].periodNumber >= matches[match.id].periods

\* The step is the end-period action of the logger.
EndAction ==
  HandlePeriodAction /\ getNextAction(currentPeriod, match).action = "end"

EndActionSetsCompleted ==
  EndAction =>
    matches'[match.id].isCompleted =
      (getNextAction(currentPeriod, match).periodNumber
         >= matches[match.id].periods)

\* C20 as stated: the end-period action sets match.isCompleted to true
\* exactly when the ended period's number reaches the configured count, the
\* match is marked completed if and only if its last period has been ended,
\* and a completed match is offered no further period action.
C20_CompletedIffLastEnded ==
  [][/\ EndActionSetsCompleted
     /\ matches'[match.id].isCompleted <=> LastPeriodEnded'
     /\ matches'[match.id].isCompleted =>
          getNextAction(currentPeriod', match') = NoAction]_vars

\* C20 as amended: the end-period action sets match.isCompleted to true
\* exactly when the ended period's number reaches the configured count (to
\* false otherwise); once the last period has been ended the match is
\* marked completed and the logger offers no further period action.
C20_CompletedWhenLastEnded ==
  [][/\ EndActionSetsCompleted
     /\ LastPeriodEnded' =>
          /\ matches'[match.id].isCompleted
          /\ getNextAction(currentPeriod', match') = NoAction]_vars

\* A match of two periods or more was played to the end through the logger
\* and is marked completed; the end of its first period had marked it not
\* completed.
C20_Witness ==
  /\ matches[match.id].periods >= 2
  /\ LastPeriodEnded
  /\ Len(actionLog) = 2 * matches[match.id].periods
  /\ matches[match.id].isCompleted
  /\ getNextAction(currentPeriod, match) = NoAction

\* C21: through seasonService.create and seasonService.update at most one
\* season is active: after a season is created active, or an existing one is
\* updated to active, it is the only active season.
C21_OneActiveSeason ==
  /\ [](Cardinality(ActiveSeasons(seasons)) <= 1)
  /\ [][/\ SeasonCreateCall(TRUE) =>
            ActiveSeasons(seasons') = {Len(seasons')}
        /\ \A id \in 1..Len(seasons) :
             SeasonUpdateCall(id, TRUE) => ActiveSeasons(seasons') = {id}]_vars

\* A second season was made the active one and the first one is not.
C21_Witness ==
  /\ Len(seasons) = 2
  /\ seasons[2].isActive
  /\ ~seasons[1].isActive

\* The event types of a team are one Goal, Assist, Tackle, Save, Yellow Card
\* and Red Card, the two cards inactive and the others active.
SixNames ==
  {NameGoal, NameAssist, NameTackle, NameSave, NameYellowCard, NameRedCard}

HasExactlyDefaults(table, teamId) ==
  LET mine == {id \in DOMAIN table : table[id].teamId = teamId}
  IN /\ Cardinality(mine) = 6
     /\ \A name \in SixNames :
          \E id \in mine :
            /\ table[id].name = name
            /\ table[id].isActive = (name \notin {NameYellowCard, NameRedCard})

KeepsRows(old, new) == \A id \in DOMAIN old : id \in DOMAIN new /\ new[id] = old[id]

\* C22: teamService.create leaves the new team with exactly the six default
\* event types; createDefaultEventTypesForExistingTeams gives the six to
\* each team without any event type and nothing to any other team, and a
\* second run right after it adds nothing.
C22_DefaultEventTypes ==
  [][/\ TeamCreateCall =>
          /\ nextTeamId \in DOMAIN teams'
          /\ HasExactlyDefaults(eventTypes', nextTeamId)
          /\ KeepsRows(eventTypes, eventTypes')
     /\ CreateDefaultsForExistingTeamsCall =>
          /\ KeepsRows(eventTypes, eventTypes')
          /\ \A id \in DOMAIN eventTypes' \ DOMAIN eventTypes :
               /\ eventTypes'[id].teamId \in DOMAIN teams
               /\ \A old \in DOMAIN eventTypes :
                    eventTypes[old].teamId # eventTypes'[id].teamId
          /\ \A t \in DOMAIN teams :
               (\A old \in DOMAIN eventTypes : eventTypes[old].teamId # t)
                 => HasExactlyDefaults(eventTypes', t)
          /\ createDefaultEventTypesForExistingTeams(
               teams', eventTypes', nextEventTypeId').table = eventTypes'
    ]_vars

\* Team 1 was created with its six event types, they were all deleted, and
\* the run for the existing teams has given it six again.
C22_Witness ==
  /\ 1 \in DOMAIN teams
  /\ DOMAIN eventTypes = 7..12
  /\ HasExactlyDefaults(eventTypes, 1)

\* C30: no team has two event types with the same name, after seedDemoData
\* and after any number of loadData calls, overlapping or not.
C30_NoDuplicateEventType ==
  \A i, j \in DOMAIN eventTypes :
    (i # j /\ eventTypes[i].teamId = eventTypes[j].teamId)
      => eventTypes[i].name # eventTypes[j].name

\* C23: when execution stops after endPeriod has written the period row and
\* before the match row is written, the logger opened again offers what it
\* would offer had the match row been written: start n+1, or nothing after
\* the last period.
C23_RecoverableAfterStop ==
  [][/\ (StopAfterPeriodWrite
           /\ getNextAction(currentPeriod, match).action = "end") =>
          LET nextAction == getNextAction(currentPeriod, match)
              written == matchUpdate(matches, match.id,
                           MatchChanges(nextAction, match, elapsedTime))
              period == getCurrentPeriod(matchPeriods', match.id)
          IN getNextAction(period, matches'[match.id])
               = getNextAction(period, written[match.id])
     /\ \A m \in MatchIds :
          (/\ MountLogger(m)
           /\ actionLog # <<>>
           /\ actionLog[Len(actionLog)].action = "end") =>
            LET n == actionLog[Len(actionLog)].periodNumber
            IN getNextAction(currentPeriod', match') =
                 IF n < matches[m].periods
                 THEN [action |-> "start", periodNumber |-> n + 1]
                 ELSE NoAction
    ]_vars

\* The logger was opened again after the end of the last period was cut
\* short: the match row is not completed and nothing is offered.
C23_Witness ==
  /\ match # NoMatch
  /\ currentPeriod # NoPeriod
  /\ currentPeriod.isCompleted
  /\ currentPeriod.periodNumber = match.periods
  /\ ~matches[match.id].isCompleted
  /\ getNextAction(currentPeriod, match) = NoAction

\* C24: the counters goals, assists, yellowCards and redCards of every
\* PlayerStats row are >= 0, whatever events are created and deleted,
\* matches deleted, event types edited and seasons changed.
C24_CountersNonNegative ==
  \A i \in 1..Len(playerStats), f \in StatFields : playerStats[i][f] >= 0

\* C25: goals of PlayerStats(P, S) is the number of stored events of player
\* P that were counted as a goal in season S (0 when there is no row), after
\* any creations and deletions of events, renamings and removals of event
\* types and switches of the current season.
C25_GoalsMatchEventLog ==
  \A p \in PlayerIds, s \in SeasonIds :
    Counters(playerStats, p, s).goals =
      Cardinality({id \in DOMAIN matchEvents \cap DOMAIN counted :
                     counted[id] = [playerId |-> p, seasonId |-> s,
                                    stat |-> "goals"]})

\* C26: no two period rows of a match have the same periodNumber and every
\* row that is not active is completed, also when the period button is
\* tapped again before the previous handlePeriodAction has finished.
C26_PeriodRowsUnderDoubleTap ==
  /\ \A i, j \in 1..Len(matchPeriods) :
       (i # j /\ matchPeriods[i].matchId = matchPeriods[j].matchId)
         => matchPeriods[i].periodNumber # matchPeriods[j].periodNumber
  /\ \A i \in 1..Len(matchPeriods) :
       ~matchPeriods[i].isActive => matchPeriods[i].isCompleted

\* C27: out of one selection of an event type at most one event is stored
\* (and so at most one statistics increment made), also when a button is
\* tapped again before recordEvent has reset the selection state.
C27_OneEventPerSelection == recorded <= 1

\* C28: after matchService.delete(m) no MatchPeriod row with matchId = m is
\* left in the store.
C28_NoPeriodOfDeletedMatch ==
  [][\A m \in MatchIds :
       MatchDeleteCall(m) =>
         \A i \in 1..Len(matchPeriods') : matchPeriods'[i].matchId # m]_vars

\* C29: a run of generateSeasonAwards stores a 'most_assists' award whenever
\* the highest assists count of the team/season is above 0 and the player
\* holding it got no 'top_scorer' award in this run, in particular when
\* nobody has a goal and no top_scorer award is made.
C29_MostAssistsPersisted ==
  [][\A seasonId \in SeasonIds, teamId \in TeamIds :
       GenerateSeasonAwardsCall(seasonId, teamId) =>
         LET rowIds == Eligible(seasonId, teamId)
         IN (/\ rowIds # {}
             /\ MaxOf(rowIds, "assists") > 0
             /\ \A k \in AddedOfType("top_scorer") :
                  awards'[k].playerId
                    # playerStats[AssistHolder(rowIds)].playerId)
            => \E k \in AddedOfType("most_assists") :
                 /\ awards'[k].playerId =
                      playerStats[AssistHolder(rowIds)].playerId
                 /\ awards'[k].value = MaxOf(rowIds, "assists")]_vars
====
